---- MODULE Spec2Model ----
(***************************************************************************)
(* linux_monitor: the collector's sampling loop (five monitors reading     *)
(* /proc text sources), the RPC client and the gRPC server's single stored *)
(* MonitorInfo.  Text is modelled character by character (a text is a      *)
(* sequence of one-character strings), so that ReadFile::ReadLine,         *)
(* std::stoll and std::stof are computed the way the code computes them.   *)
(***************************************************************************)
EXTENDS Integers, Sequences, FiniteSets, TLC

VARIABLES
    workload,        \* which /proc source varies in this run (the others stay fixed)
    name,            \* main.cpp: char* name = getenv("USER")
    pc,              \* position of the collection thread in its loop
    tick,            \* iterations of while(true) begun
    now,             \* std::chrono::steady_clock
    grain,           \* what the steady clock advances between two now() of one call
    monitor_info,    \* main.cpp: the MonitorInfo built in this iteration
    cpu_softirqs_,   \* CpuSoftIrqMonitor::cpu_softirqs_
    cpu_stat_map_,   \* CpuStatMonitor::cpu_stat_map_
    net_info_,       \* NetMonitor::net_info_
    proc,            \* the text each monitor's ReadFile was opened on in this iteration
    trace,           \* what the last monitor call did, record by record
    rpc,             \* the RpcClient::SetMonitorInfo calls of this iteration and the one before
    monitor_infos_,  \* GrpcManagerImpl::monitor_infos_
    setter,          \* the server thread running SetMonitorInfo
    getters,         \* the server threads running GetMonitorInfo
    nset,            \* SetMonitorInfo calls begun
    display          \* display_monitor's main(): its monitor_info and its update thread

vars == <<workload, name, grain, pc, tick, now, monitor_info, cpu_softirqs_, cpu_stat_map_,
          net_info_, proc, trace, rpc, monitor_infos_, setter, getters, nset, display>>

collectorVars == <<workload, name, grain, pc, tick, now, monitor_info, cpu_softirqs_,
                   cpu_stat_map_, net_info_, proc, trace, rpc>>

cacheVars == <<monitor_infos_, setter, getters, nset>>

----------------------------------------------------------------------------
(* Bounds of the model *)

\* iterations of the collection loop that are explored
MaxTick == 3

----------------------------------------------------------------------------
(* Text: characters, words, lines *)

NL == "\n"
SP == " "

Digits == <<"0", "1", "2", "3", "4", "5", "6", "7", "8", "9">>

IsDigit(c) == \E i \in 1..10 : Digits[i] = c

DigitVal(c) == (CHOOSE i \in 1..10 : Digits[i] = c) - 1

\* std::isspace for the characters that occur in the sources
Spaces == {" ", "\t", "\n"}

\* the kernel's %u / %llu formatting of a counter
RECURSIVE Dec(_)
Dec(n) == IF n < 10 THEN <<Digits[n + 1]>> ELSE Dec(n \div 10) \o <<Digits[(n % 10) + 1]>>

\* words separated by one blank, as the kernel prints a row
RECURSIVE Join(_)
Join(words) ==
    IF words = <<>> THEN <<>>
    ELSE IF Len(words) = 1 THEN words[1]
    ELSE words[1] \o <<SP>> \o Join(Tail(words))

\* the lines of a source, each ended by a newline
RECURSIVE Text(_)
Text(lines) == IF lines = <<>> THEN <<>> ELSE lines[1] \o <<NL>> \o Text(Tail(lines))

\* a source: whether it can be opened, and its text
File(lines) == [open |-> TRUE, text |-> Text(lines)]

Unopenable == [open |-> FALSE, text |-> <<>>]

----------------------------------------------------------------------------
(* ReadFile::ReadLine *)

\* the least position in pos..Len(s) whose character is in chars (member) or is
\* not in chars (~member), Len(s) + 1 when there is none
First(s, pos, chars, member) ==
    LET hits == {q \in pos..Len(s) : (s[q] \in chars) = member}
    IN  IF hits = {} THEN Len(s) + 1 ELSE CHOOSE q \in hits : \A r \in hits : q <= r

\* position of the first newline at or after pos, 0 when there is none
FindNL(text, pos) ==
    LET q == First(text, pos, {NL}, TRUE) IN IF q > Len(text) THEN 0 ELSE q

\* std::getline(ifs_, line): the line, the next position, and the stream's eofbit
GetLine(f, pos) ==
    LET nl == FindNL(f.text, pos)
    IN  IF ~f.open THEN [line |-> <<>>, pos |-> pos, eof |-> FALSE]
        ELSE IF nl = 0
             THEN [line |-> SubSeq(f.text, pos, Len(f.text)),
                   pos |-> Len(f.text) + 1, eof |-> TRUE]
             ELSE [line |-> SubSeq(f.text, pos, nl - 1), pos |-> nl + 1, eof |-> FALSE]

\* while (!line_ss.eof()) { line_ss >> word; args->push_back(word); }
\* operator>> skips blanks, then reads up to the next blank; it sets eofbit when it
\* runs into the end of the line, and leaves word empty when it extracted nothing
SkipSpace(line, p) == First(line, p, Spaces, FALSE)

WordEnd(line, p) == First(line, p, Spaces, TRUE)

RECURSIVE SplitWords(_, _)
SplitWords(line, p) ==
    LET b == SkipSpace(line, p)
        e == WordEnd(line, b)
    IN  IF b > Len(line) THEN << <<>> >>
        ELSE IF e > Len(line) THEN <<SubSeq(line, b, Len(line))>>
        ELSE <<SubSeq(line, b, e - 1)>> \o SplitWords(line, e)

\* one call: the return value, what was appended to args, and the next position
ReadLine(f, pos) ==
    LET g == GetLine(f, pos)
    IN  IF g.eof \/ g.line = <<>>
        THEN [ok |-> FALSE, args |-> <<>>, pos |-> g.pos]
        ELSE [ok |-> TRUE, args |-> SplitWords(g.line, 1), pos |-> g.pos]

\* the records a caller's while (file.ReadLine(&args)) loop is given
RECURSIVE ReadLines(_, _)
ReadLines(f, pos) ==
    LET r == ReadLine(f, pos)
    IN  IF r.ok THEN <<r.args>> \o ReadLines(f, r.pos) ELSE <<>>

----------------------------------------------------------------------------
(* The lines of /proc/meminfo that MemMonitor reads *)

\* MemMonitor::UpdateOnce: the labels of the if / else if chain, the member each
\* one sets and the
\* setter that publishes it
MemTable ==
    <<[label |-> <<"M", "e", "m", "T", "o", "t", "a", "l", ":">>,
       member |-> "total", setter |-> "total"],
      [label |-> <<"M", "e", "m", "F", "r", "e", "e", ":">>,
       member |-> "free", setter |-> "free"],
      [label |-> <<"M", "e", "m", "A", "v", "a", "i", "l", "a", "b", "l", "e", ":">>,
       member |-> "avail", setter |-> "avail"],
      [label |-> <<"B", "u", "f", "f", "e", "r", "s", ":">>,
       member |-> "buffers", setter |-> "buffers"],
      [label |-> <<"C", "a", "c", "h", "e", "d", ":">>,
       member |-> "cached", setter |-> "cached"],
      [label |-> <<"S", "w", "a", "p", "C", "a", "c", "h", "e", "d", ":">>,
       member |-> "swap_cached", setter |-> "swap_cached"],
      [label |-> <<"A", "c", "t", "i", "v", "e", ":">>,
       member |-> "active", setter |-> "active"],
      [label |-> <<"I", "n", "a", "c", "t", "i", "v", "e", ":">>,
       member |-> "in_active", setter |-> "inactive"],
      [label |-> <<"A", "c", "t", "i", "v", "e", "(", "a", "n", "o", "n", ")", ":">>,
       member |-> "active_anon", setter |-> "active_anon"],
      [label |-> <<"I", "n", "a", "c", "t", "i", "v", "e", "(", "a", "n", "o", "n", ")", ":">>,
       member |-> "inactive_anon", setter |-> "inactive_anon"],
      [label |-> <<"A", "c", "t", "i", "v", "e", "(", "f", "i", "l", "e", ")", ":">>,
       member |-> "active_file", setter |-> "active_file"],
      [label |-> <<"I", "n", "a", "c", "t", "i", "v", "e", "(", "f", "i", "l", "e", ")", ":">>,
       member |-> "inactive_file", setter |-> "inactive_file"],
      [label |-> <<"D", "i", "r", "t", "y", ":">>,
       member |-> "dirty", setter |-> "dirty"],
      [label |-> <<"W", "r", "i", "t", "e", "b", "a", "c", "k", ":">>,
       member |-> "writeback", setter |-> "writeback"],
      [label |-> <<"A", "n", "o", "n", "P", "a", "g", "e", "s", ":">>,
       member |-> "anon_pages", setter |-> "anon_pages"],
      [label |-> <<"M", "a", "p", "p", "e", "d", ":">>,
       member |-> "mapped", setter |-> "mapped"],
      [label |-> <<"K", "R", "e", "c", "l", "a", "i", "m", "a", "b", "l", "e", ":">>,
       member |-> "kReclaimable", setter |-> "kreclaimable"],
      [label |-> <<"S", "R", "e", "c", "l", "a", "i", "m", "a", "b", "l", "e", ":">>,
       member |-> "sReclaimable", setter |-> "sreclaimable"],
      [label |-> <<"S", "U", "n", "r", "e", "c", "l", "a", "i", "m", ":">>,
       member |-> "sUnreclaim", setter |-> "sunreclaim"]>>

MemMembers == {MemTable[k].member : k \in 1..Len(MemTable)}

----------------------------------------------------------------------------
(* The /proc sources, as the kernel prints them *)

\* the words the sources below are made of
Word ==
    [zero       |-> <<"0">>,
     bad        |-> <<"x">>,
     eth0       |-> <<"e", "t", "h", "0">>,
     lo         |-> <<"l", "o">>,
     cpu0       |-> <<"C", "P", "U", "0">>,
     cpu1       |-> <<"C", "P", "U", "1">>,
     cpu        |-> <<"c", "p", "u">>,
     cpu_core   |-> <<"c", "p", "u", "0">>,
     intr       |-> <<"i", "n", "t", "r">>,
     swap_total |-> <<"S", "w", "a", "p", "T", "o", "t", "a", "l", ":">>]

\* /proc/net/dev: two header lines, then one row per interface
NetHeader1 == <<"I", "n", "t", "e", "r", "-", "|", " ", " ", " ", "R", "e", "c", "e", "i", "v", "e", " ", " ", "|", " ", " ", "T", "r", "a", "n", "s", "m", "i", "t">>
NetHeader2 == <<" ", "f", "a", "c", "e", " ", "|", "b", "y", "t", "e", "s", " ", "p", "a", "c", "k", "e", "t", "s", " ", "e", "r", "r", "s", " ", "d", "r", "o", "p", " ", "f", "i", "f", "o", " ", "f", "r", "a", "m", "e", " ", "c", "o", "m", "p", "r", "e", "s", "s", "e", "d", " ", "m", "u", "l", "t", "i", "c", "a", "s", "t", "|", "b", "y", "t", "e", "s", " ", "p", "a", "c", "k", "e", "t", "s", " ", "e", "r", "r", "s", " ", "d", "r", "o", "p", " ", "f", "i", "f", "o", " ", "c", "o", "l", "l", "s", " ", "c", "a", "r", "r", "i", "e", "r", " ", "c", "o", "m", "p", "r", "e", "s", "s", "e", "d">>


\* the counters of an interface when it is read for the k-th time
NetCounters(k) ==
    [rcv_bytes |-> 2048 + 10240 * (k - 1), rcv_packets |-> 100 + 1000 * (k - 1),
     snd_bytes |-> 1024 + 5120 * (k - 1), snd_packets |-> 100 + 500 * (k - 1)]

NetLine(ifname, c) ==
    <<SP, SP>> \o
    Join(<<ifname \o <<":">>, Dec(c.rcv_bytes), Dec(c.rcv_packets), Word.zero, Word.zero, Word.zero,
           Word.zero, Word.zero, Word.zero, Dec(c.snd_bytes), Dec(c.snd_packets), Word.zero, Word.zero, Word.zero,
           Word.zero, Word.zero, Word.zero>>)

NetFile(rows) == File(<<NetHeader1, NetHeader2>> \o rows)

\* a row with a counter that is no number, and a row that stops after 10 fields
NetBadLine == Join(<<Word.eth0 \o <<":">>, Dec(2048), Word.bad, Word.zero, Word.zero, Word.zero, Word.zero, Word.zero,
                     Word.zero, Word.zero, Word.zero, Word.zero, Word.zero, Word.zero>>)

NetShortLine == Join(<<Word.eth0 \o <<":">>, Dec(2048), Dec(100), Word.zero, Word.zero, Word.zero, Word.zero,
                       Word.zero, Word.zero, Dec(1024)>>)

NetNormal(k) == NetFile(<<NetLine(Word.lo, NetCounters(k)), NetLine(Word.eth0, NetCounters(k))>>)

NetVarying ==
    {NetFile(<<NetLine(Word.eth0, NetCounters(1))>>),
     NetFile(<<NetLine(Word.eth0, NetCounters(2))>>),
     NetFile(<<NetLine(Word.lo, NetCounters(1))>>),
     NetFile(<<NetLine(Word.eth0, NetCounters(1)), NetLine(Word.eth0, NetCounters(2))>>),
     NetFile(<<NetLine(Word.lo, NetCounters(1)), NetBadLine>>),
     NetFile(<<NetShortLine>>),
     Unopenable}

\* /proc/softirqs: a header row naming the CPUs (the kernel pads every name with
\* blanks, also the last one), then one row per interrupt class
IrqLabels ==
    <<<<"H", "I", ":">>,
      <<"T", "I", "M", "E", "R", ":">>,
      <<"N", "E", "T", "_", "T", "X", ":">>,
      <<"N", "E", "T", "_", "R", "X", ":">>,
      <<"B", "L", "O", "C", "K", ":">>,
      <<"I", "R", "Q", "_", "P", "O", "L", "L", ":">>,
      <<"T", "A", "S", "K", "L", "E", "T", ":">>,
      <<"S", "C", "H", "E", "D", ":">>,
      <<"H", "R", "T", "I", "M", "E", "R", ":">>,
      <<"R", "C", "U", ":">>>>


\* the count of class k on the j-th CPU when the source is read for the n-th time
IrqCount(k, j, n) == 100 + 1000 * (n - 1) * k + 10 * (j - 1)

SoftIrqHeader(cpus) == <<SP, SP>> \o Join(cpus) \o <<SP, SP>>

SoftIrqLine(k, ncpu, n) ==
    Join(<<IrqLabels[k]>> \o [j \in 1..ncpu |-> Dec(IrqCount(k, j, n))])

SoftIrqFile(cpus, n) ==
    File(<<SoftIrqHeader(cpus)>> \o [k \in 1..Len(IrqLabels) |-> SoftIrqLine(k, Len(cpus), n)])

SoftIrqBad(cpus) ==
    File(<<SoftIrqHeader(cpus)>> \o
         [k \in 1..Len(IrqLabels) |-> IF k = 2 THEN Join(<<IrqLabels[k], Word.bad, Word.bad>>)
                          ELSE SoftIrqLine(k, Len(cpus), 1)])

SoftIrqShort(cpus) ==
    File(<<SoftIrqHeader(cpus)>> \o [k \in 1..4 |-> SoftIrqLine(k, Len(cpus), 1)])

SoftIrqNormal(k) == SoftIrqFile(<<Word.cpu0, Word.cpu1>>, k)

SoftIrqVarying ==
    {SoftIrqFile(<<Word.cpu0, Word.cpu1>>, 1),
     SoftIrqFile(<<Word.cpu0, Word.cpu1>>, 2),
     SoftIrqFile(<<Word.cpu0>>, 2),
     SoftIrqFile(<<Word.cpu0, Word.cpu0>>, 1),
     SoftIrqBad(<<Word.cpu0, Word.cpu1>>),
     SoftIrqShort(<<Word.cpu0>>),
     Unopenable}

\* /proc/stat: the aggregate row, one row per core, then rows that are no CPU rows

\* the jiffies of a CPU when the source is read for the k-th time: between two
\* reads user grows by 300 and the eight accounted components by 1000 in all
StatCounters(k) ==
    [user |-> 1000 + 300 * (k - 1), nice |-> 0, system |-> 500 + 100 * (k - 1),
     idle |-> 8000 + 550 * (k - 1), io_wait |-> 100 + 20 * (k - 1), irq |-> 0,
     soft_irq |-> 50 + 30 * (k - 1), steal |-> 0, guest |-> 40 * (k - 1),
     guest_nice |-> 0]

\* jiffies of a machine that has been up for two days: every counter is below
\* 2^24 and none goes down; the sum of user and idle is 2^24 - 1 in the first read,
\* 2^24 + 3 in the second and 2^24 + 6 in the third
StatCountersLong(k) ==
    [user |-> CASE k = 1 -> 1000000 [] k = 2 -> 1000002 [] OTHER -> 1000005 + (k - 3),
     nice |-> 0, system |-> 0, idle |-> IF k = 1 THEN 15777215 ELSE 15777217,
     io_wait |-> 0, irq |-> 0, soft_irq |-> 0, steal |-> 0, guest |-> 0,
     guest_nice |-> 0]

StatLine(cpu, c) ==
    Join(<<cpu, Dec(c.user), Dec(c.nice), Dec(c.system), Dec(c.idle), Dec(c.io_wait),
           Dec(c.irq), Dec(c.soft_irq), Dec(c.steal), Dec(c.guest), Dec(c.guest_nice)>>)

StatFile(rows) == File(rows \o <<Join(<<Word.intr, Dec(12), Word.zero>>)>>)

StatBadLine == Join(<<Word.cpu, Dec(1000), Word.bad, Word.zero, Word.zero, Word.zero, Word.zero, Word.zero, Word.zero, Word.zero, Word.zero>>)

StatShortLine == Join(<<Word.cpu, Dec(1000), Word.zero, Dec(500), Dec(8000)>>)

StatNormal(k) ==
    StatFile(<<StatLine(Word.cpu, StatCounters(k)), StatLine(Word.cpu_core, StatCounters(k))>>)

StatVarying ==
    {StatFile(<<StatLine(Word.cpu, StatCounters(1))>>),
     StatFile(<<StatLine(Word.cpu, StatCounters(2))>>),
     StatFile(<<StatLine(Word.cpu, StatCounters(2)), StatLine(Word.cpu_core, StatCounters(1))>>),
     StatFile(<<StatBadLine>>),
     StatFile(<<StatShortLine>>),
     Unopenable}

\* /proc/loadavg
LoadNormal == File(<<<<"0", ".", "4", "5", " ", "0", ".", "6", "7", " ", "0", ".", "8", "9", " ", "2", "/", "3", "4", "5", " ", "1", "2", "3", "4", "5">>>>)
LoadBad    == File(<<<<"x", " ", "0", ".", "6", "7", " ", "0", ".", "8", "9", " ", "2", "/", "3", "4", "5", " ", "1", "2", "3", "4", "5">>>>)

LoadVarying == {LoadNormal, LoadBad, Unopenable}

\* /proc/meminfo: Label: value kB

MemLine(label, kb) == Join(<<label, Dec(kb), <<"k", "B">> >>)

\* the lines of every label that is read, and one of a label that is not
MemLinesOf(total, free, avail) ==
    [k \in 1..Len(MemTable) |->
        MemLine(MemTable[k].label,
                CASE k = 1 -> total [] k = 2 -> free [] k = 3 -> avail
                  [] OTHER -> 100000 + 1000 * k)]
    \o <<MemLine(Word.swap_total, 2000000)>>

MemFileOf(total, free, avail) == File(MemLinesOf(total, free, avail))

MemNormal == MemFileOf(16000000, 3000000, 8000000)

\* a source with a value that is no number, and one that stops after three lines
MemBad == File(<<Join(<<MemTable[1].label, Word.bad, <<"k", "B">> >>)>>)

MemPartial == File(SubSeq(MemLinesOf(16000000, 3000000, 8000000), 1, 3))

MemVarying ==
    {MemNormal, MemFileOf(17000001, 1000000, 4000000), MemBad, MemPartial, Unopenable}

\* /proc/stat of a machine that has been up for two days
StatLong(k) == StatFile(<<StatLine(Word.cpu, StatCountersLong(k))>>)

\* the sources of a healthy machine in iterations 1 .. MaxTick
Healthy ==
    [softirq |-> [k \in 1..MaxTick |-> SoftIrqNormal(k)],
     load    |-> [k \in 1..MaxTick |-> LoadNormal],
     stat    |-> [k \in 1..MaxTick |-> StatNormal(k)],
     mem     |-> [k \in 1..MaxTick |-> MemNormal],
     net     |-> [k \in 1..MaxTick |-> NetNormal(k)]]

\* the sources among which the one that varies is chosen
Varying ==
    [softirq |-> SoftIrqVarying, load |-> LoadVarying, stat |-> StatVarying,
     mem |-> MemVarying, net |-> NetVarying]

AllSources ==
    UNION {Varying[m] \cup {Healthy[m][k] : k \in 1..MaxTick} : m \in DOMAIN Varying}
    \cup {StatLong(k) : k \in 1..MaxTick}

FirstRecord == [f \in AllSources |-> ReadLine(f, 1)]

Records == [f \in AllSources |-> ReadLines(f, 1)]

----------------------------------------------------------------------------
(* std::stoll, std::stof, and float arithmetic *)

\* the run of digits of w from position p on: its value and where it ends
RECURSIVE ParseDigits(_, _, _)
ParseDigits(w, p, acc) ==
    IF p <= Len(w) /\ IsDigit(w[p])
    THEN ParseDigits(w, p + 1, acc * 10 + DigitVal(w[p]))
    ELSE [val |-> acc, pos |-> p]

HasSign(w) == w # <<>> /\ w[1] \in {"-", "+"}

\* std::stoll(word): throws std::invalid_argument (ok = FALSE) when the word does
\* not begin with a number; characters after the number are ignored
Stoll(w) ==
    LET start == IF HasSign(w) THEN 2 ELSE 1
        d     == ParseDigits(w, start, 0)
    IN  IF d.pos = start THEN [ok |-> FALSE, val |-> 0]
        ELSE [ok |-> TRUE, val |-> IF w[1] = "-" THEN 0 - d.val ELSE d.val]

\* bits of a float's significand (IEEE 754 binary32)
FloatMantissa == 24

\* the unit in the last place of the float nearest to the integer n >= 0
RECURSIVE Ulp(_)
Ulp(n) == IF n < 2 ^ FloatMantissa THEN 1 ELSE 2 * Ulp(n \div 2)

\* the integer n rounded to the nearest float, ties to even
FRoundNat(n) ==
    LET u == Ulp(n)
        q == n \div u
        r == n % u
    IN  IF 2 * r < u THEN q * u
        ELSE IF 2 * r > u THEN (q + 1) * u
        ELSE IF q % 2 = 0 THEN q * u ELSE (q + 1) * u

FRound(n) == IF n < 0 THEN 0 - FRoundNat(0 - n) ELSE FRoundNat(n)

RECURSIVE Pow10(_)
Pow10(k) == IF k = 0 THEN 1 ELSE 10 * Pow10(k - 1)

\* A float is num / den with den a power of ten; an integer-valued float (den = 1)
\* is kept to the 24 bits a float holds, a decimal fraction is kept as written.
\* std::stof(word): throws (ok = FALSE) when the word does not begin with a number.
Stof(w) ==
    LET start == IF HasSign(w) THEN 2 ELSE 1
        ip    == ParseDigits(w, start, 0)
        dot   == ip.pos <= Len(w) /\ w[ip.pos] = "."
        fp    == IF dot THEN ParseDigits(w, ip.pos + 1, ip.val)
                 ELSE [val |-> ip.val, pos |-> ip.pos]
        nfrac == IF dot THEN fp.pos - (ip.pos + 1) ELSE 0
        ndig  == (ip.pos - start) + nfrac
        mag   == IF nfrac = 0 THEN FRound(fp.val) ELSE fp.val
    IN  IF ndig = 0 THEN [ok |-> FALSE, val |-> [num |-> 0, den |-> 1]]
        ELSE [ok |-> TRUE,
              val |-> [num |-> IF w[1] = "-" THEN 0 - mag ELSE mag, den |-> Pow10(nfrac)]]

Max(a, b) == IF a >= b THEN a ELSE b

\* float + float and float - float, each rounded to a float
FAdd(a, b) ==
    LET d == Max(a.den, b.den)
        s == a.num * (d \div a.den) + b.num * (d \div b.den)
    IN  [num |-> IF d = 1 THEN FRound(s) ELSE s, den |-> d]

FSub(a, b) == FAdd(a, [num |-> 0 - b.num, den |-> b.den])

\* a quotient that is emitted: num / den, compared by cross-multiplication
Ratio(n, d) == [num |-> n, den |-> d]

Abs(n) == IF n < 0 THEN 0 - n ELSE n

RECURSIVE GCD(_, _)
GCD(a, b) == IF b = 0 THEN a ELSE GCD(b, a % b)

\* a quotient in lowest terms, its denominator not negative
Reduce(x) ==
    LET g == GCD(Abs(x.num), Abs(x.den))
        s == IF x.den < 0 THEN 0 - 1 ELSE 1
    IN  IF g = 0 THEN x ELSE [num |-> s * (x.num \div g), den |-> s * (x.den \div g)]

\* whether two quotients are the same number
RatioEq(x, y) == Reduce(x) = Reduce(y)

\* a / b * 100.00 for floats a, b with b # 0
FPercent(a, b) == Ratio(100 * a.num * b.den, b.num * a.den)

----------------------------------------------------------------------------
(* std::unordered_map<std::string, Sample> *)

EmptyMap == [n \in {} |-> 0]

\* map[key] = value
Put(map, key, value) ==
    [n \in DOMAIN map \cup {key} |-> IF n = key THEN value ELSE map[n]]

\* Reading a vector element past its end, or an object that was never
\* initialised, is undefined: the read faults, or it yields whatever is there.
\* A monitor call is given one outcome for its undefined reads.
UBWords == {<<>>, <<"7">>}

UBOutcomes == {[fault |-> TRUE, word |-> <<>>]} \cup {[fault |-> FALSE, word |-> w] : w \in UBWords}

\* v[i] of a std::vector<std::string>, i counted from 0
At(v, i, ub) ==
    IF i < Len(v) THEN [fault |-> FALSE, word |-> v[i + 1]]
    ELSE ub

----------------------------------------------------------------------------
(* NetMonitor::UpdateOnce *)

\* std::string::find(c) counted from 0; npos, which is size_t(-1), is -1
FindChar(w, c, p) ==
    LET q == First(w, p, {c}, TRUE)
    IN  IF q > Len(w) THEN 0 - 1 ELSE q - 1

\* net_datas.size() >= 10
MinNetFields == 10

\* name.find(':') == name.size() - 1 && net_datas.size() >= 10
IsInterfaceRow(args) ==
    FindChar(args[1], ":", 1) = Len(args[1]) - 1 /\ Len(args) >= MinNetFields

\* name.pop_back()
PopBack(w) == SubSeq(w, 1, Len(w) - 1)

\* the indices of net_datas that are converted, in the order of the statements
NetFieldIndex == <<1, 2, 3, 4, 9, 10, 11, 12>>

\* the eight std::stoll(net_datas[i]); ok is FALSE when a read faults or a
\* conversion throws
NetParse(args, ub) ==
    LET word == [k \in 1..8 |-> At(args, NetFieldIndex[k], ub)]
        conv == [k \in 1..8 |-> Stoll(word[k].word)]
    IN  [ok  |-> \A k \in 1..8 : ~word[k].fault /\ conv[k].ok,
         val |-> [k \in 1..8 |-> conv[k].val]]

\* struct NetInfo filled from one row at time t
NetInfo(nm, v, t) ==
    [name |-> nm, rcv_bytes |-> v[1], rcv_packets |-> v[2], err_in |-> v[3],
     drop_in |-> v[4], snd_bytes |-> v[5], snd_packets |-> v[6], err_out |-> v[7],
     drop_out |-> v[8], timepoint |-> t]

\* bytes per KB in the byte rates
KB == 1024

\* Utils::SteadyTimeSecond(t1, t2)
SteadyTimeSecond(t1, t2) == t1 - t2

\* a guard that lets a period of zero through
NetEmitsAtZero(had, period) == had /\ period >= 0

\* the guards of the rate computation: an old sample was found, and period > 0
NetEmits(had, period) == had /\ period > 0

\* a message whose byte rates are not divided by 1024
NetMsgInBytes(cur, old, period) ==
    [name             |-> cur.name,
     send_rate        |-> Ratio(cur.snd_bytes - old.snd_bytes, period),
     rcv_rate         |-> Ratio(cur.rcv_bytes - old.rcv_bytes, period),
     send_packets_rate |-> Ratio(cur.snd_packets - old.snd_packets, period),
     rcv_packets_rate |-> Ratio(cur.rcv_packets - old.rcv_packets, period)]

\* the message added by add_net_info() and filled by the four setters
NetMsg(cur, old, period) ==
    [name             |-> cur.name,
     send_rate        |-> Ratio(cur.snd_bytes - old.snd_bytes, KB * period),
     rcv_rate         |-> Ratio(cur.rcv_bytes - old.rcv_bytes, KB * period),
     send_packets_rate |-> Ratio(cur.snd_packets - old.snd_packets, period),
     rcv_packets_rate |-> Ratio(cur.rcv_packets - old.rcv_packets, period)]

\* a history that keeps only the interface of the current row
NetStoredOnly(hist, nm, cur) == Put(EmptyMap, nm, cur)

\* what is stored by net_info_[name] = std::move(net_info)
NetStored(hist, nm, cur) == Put(hist, nm, cur)

\* the state of a monitor call before its first record
CallStart(hist, out, t) ==
    [status |-> "ok", hist |-> hist, out |-> out, clock |-> t, log |-> <<>>]

\* an uncaught exception or a fault ends the process
Terminated(st) == [st EXCEPT !.status = "terminated"]

\* one entry of a call's log: the entity, its history entry before and after
\* the record was processed, the sample read, and the messages added for it
LogEntry(nm, hist, cur, added, after) ==
    [name |-> nm, had |-> nm \in DOMAIN hist,
     before |-> IF nm \in DOMAIN hist THEN <<hist[nm]>> ELSE <<>>,
     raw |-> cur, added |-> added,
     after |-> IF nm \in DOMAIN after THEN <<after[nm]>> ELSE <<>>]

\* the body of the while loop for one record; adv is how far the steady clock
\* moves between two calls of now()
NetRow(st, args, ub, adv) ==
    IF st.status # "ok" \/ ~IsInterfaceRow(args) THEN st
    ELSE
    LET nm == PopBack(args[1])
        p  == NetParse(args, ub)
    IN  IF ~p.ok THEN Terminated(st)
        ELSE
        LET cur    == NetInfo(nm, p.val, st.clock)
            had    == nm \in DOMAIN st.hist
            old    == st.hist[nm]
            period == SteadyTimeSecond(cur.timepoint, old.timepoint)
            added  == IF had /\ NetEmits(had, period)
                      THEN <<NetMsg(cur, old, period)>> ELSE <<>>
            after  == NetStored(st.hist, nm, cur)
        IN  [status |-> "ok", hist |-> after, out |-> st.out \o added,
             clock |-> st.clock + adv,
             log |-> Append(st.log, LogEntry(nm, st.hist, cur, added, after))]

RECURSIVE NetRows(_, _, _, _, _)
NetRows(st, rows, i, ub, adv) ==
    IF i > Len(rows) THEN st
    ELSE NetRows(NetRow(st, rows[i], ub, adv), rows, i + 1, ub, adv)

\* the whole call on source f
NetUpdateOnce(f, hist, out, t, ub, adv) ==
    NetRows(CallStart(hist, out, t), Records[f], 1, ub, adv)

----------------------------------------------------------------------------
(* CpuSoftIrqMonitor::UpdateOnce *)

\* the interrupt-class rows softirq[1] .. softirq[10]
SoftIrqRows == 10

\* softirq[k], k counted from 0: reading a row that was not read is undefined
RowAt(softirq, k, ub) ==
    IF k < Len(softirq) THEN [fault |-> FALSE, row |-> softirq[k + 1]]
    ELSE [fault |-> ub.fault, row |-> <<ub.word>>]

\* the ten std::stoll(softirq[k][i + 1]) of CPU column i
SoftIrqParse(softirq, i, ub) ==
    LET row  == [k \in 1..SoftIrqRows |-> RowAt(softirq, k, ub)]
        word == [k \in 1..SoftIrqRows |-> At(row[k].row, i + 1, ub)]
        conv == [k \in 1..SoftIrqRows |-> Stoll(word[k].word)]
    IN  [ok  |-> \A k \in 1..SoftIrqRows : ~row[k].fault /\ ~word[k].fault /\ conv[k].ok,
         val |-> [k \in 1..SoftIrqRows |-> conv[k].val]]

\* struct SoftIrq filled from column i at time t
SoftIrq(nm, v, t) ==
    [cpu_name |-> nm,
     hi |-> v[1],
     timer |-> v[2],
     net_tx |-> v[3],
     net_rx |-> v[4],
     block |-> v[5],
     irq_poll |-> v[6],
     tasklet |-> v[7],
     sched |-> v[8],
     hrtimer |-> v[9],
     rcu |-> v[10],
     timepoint |-> t]

\* a monitor that gives no record
SoftIrqEmitsNever(had, period) == FALSE

\* the guards of the rate computation: an old sample was found, and period > 0
SoftIrqEmits(had, period) == had /\ period > 0

\* a message whose rates are clamped at zero
SoftIrqMsgClamped(cur, old, period) ==
    [cpu |-> cur.cpu_name,
     hi |-> Ratio(Max(cur.hi - old.hi, 0), period),
     timer |-> Ratio(Max(cur.timer - old.timer, 0), period),
     net_tx |-> Ratio(Max(cur.net_tx - old.net_tx, 0), period),
     net_rx |-> Ratio(Max(cur.net_rx - old.net_rx, 0), period),
     block |-> Ratio(Max(cur.block - old.block, 0), period),
     irq_poll |-> Ratio(Max(cur.irq_poll - old.irq_poll, 0), period),
     tasklet |-> Ratio(Max(cur.tasklet - old.tasklet, 0), period),
     sched |-> Ratio(Max(cur.sched - old.sched, 0), period),
     hrtimer |-> Ratio(Max(cur.hrtimer - old.hrtimer, 0), period),
     rcu |-> Ratio(Max(cur.rcu - old.rcu, 0), period)]

\* the message added by add_soft_irq() and filled by the setters
SoftIrqMsg(cur, old, period) ==
    [cpu |-> cur.cpu_name,
     hi |-> Ratio(cur.hi - old.hi, period),
     timer |-> Ratio(cur.timer - old.timer, period),
     net_tx |-> Ratio(cur.net_tx - old.net_tx, period),
     net_rx |-> Ratio(cur.net_rx - old.net_rx, period),
     block |-> Ratio(cur.block - old.block, period),
     irq_poll |-> Ratio(cur.irq_poll - old.irq_poll, period),
     tasklet |-> Ratio(cur.tasklet - old.tasklet, period),
     sched |-> Ratio(cur.sched - old.sched, period),
     hrtimer |-> Ratio(cur.hrtimer - old.hrtimer, period),
     rcu |-> Ratio(cur.rcu - old.rcu, period)]

\* a history that is left as it is
SoftIrqNotStored(hist, nm, cur) == hist

\* what is stored by cpu_softirqs_[name] = info
\* a history that keeps only the CPU of the current column
SoftIrqStoredOnly(hist, nm, cur) == Put(EmptyMap, nm, cur)

SoftIrqStored(hist, nm, cur) == Put(hist, nm, cur)

\* the body of the for loop for column i (counted from 0)
SoftIrqColumn(st, softirq, i, ub, adv) ==
    IF st.status # "ok" THEN st
    ELSE
    LET nm == softirq[1][i + 1]
        p  == SoftIrqParse(softirq, i, ub)
    IN  IF ~p.ok THEN Terminated(st)
        ELSE
        LET cur    == SoftIrq(nm, p.val, st.clock)
            had    == nm \in DOMAIN st.hist
            old    == st.hist[nm]
            period == SteadyTimeSecond(cur.timepoint, old.timepoint)
            added  == IF had /\ SoftIrqEmits(had, period)
                      THEN <<SoftIrqMsg(cur, old, period)>> ELSE <<>>
            after  == SoftIrqStored(st.hist, nm, cur)
        IN  [status |-> "ok", hist |-> after, out |-> st.out \o added,
             clock |-> st.clock + adv,
             log |-> Append(st.log, LogEntry(nm, st.hist, cur, added, after))]

\* a loop that stops one column earlier
SoftIrqColumnCountLess(softirq) == Len(softirq[1]) - 2

\* for (int i = 0; i < softirq[0].size() - 1; i++)
SoftIrqColumnCount(softirq) == Len(softirq[1]) - 1

RECURSIVE SoftIrqColumns(_, _, _, _, _)
SoftIrqColumns(st, softirq, i, ub, adv) ==
    IF i >= SoftIrqColumnCount(softirq) THEN st
    ELSE SoftIrqColumns(SoftIrqColumn(st, softirq, i, ub, adv), softirq, i + 1, ub, adv)

\* the whole call on source f; softirq[0] of an empty vector is undefined: the
\* read faults, or it yields a vector with nothing to iterate over
SoftIrqUpdateOnce(f, hist, out, t, ub, adv) ==
    LET softirq == Records[f]
        st      == CallStart(hist, out, t)
    IN  IF softirq = <<>>
        THEN IF ub.fault THEN Terminated(st) ELSE st
        ELSE SoftIrqColumns(st, softirq, 0, ub, adv)

----------------------------------------------------------------------------
(* CpuStatMonitor::UpdateOnce *)

\* whether pat occurs in w at position p (counted from 1)
MatchAt(w, pat, p) ==
    p + Len(pat) - 1 <= Len(w) /\ \A k \in 1..Len(pat) : w[p + k - 1] = pat[k]

\* cpu_stat_list[0].find("cpu") != std::string::npos
IsCpuRow(args) == \E p \in 1..Len(args[1]) : MatchAt(args[1], <<"c", "p", "u">>, p)

\* the ten std::stof(cpu_stat_list[i]), i = 1 .. 10
CpuStatFields == 10

CpuStatParse(args, ub) ==
    LET word == [k \in 1..CpuStatFields |-> At(args, k, ub)]
        conv == [k \in 1..CpuStatFields |-> Stof(word[k].word)]
    IN  [ok  |-> \A k \in 1..CpuStatFields : ~word[k].fault /\ conv[k].ok,
         val |-> [k \in 1..CpuStatFields |-> conv[k].val]]

\* struct CpuStat filled from one row; every field is a float
CpuStat(nm, v) ==
    [cpu_name |-> nm, user |-> v[1], nice |-> v[2], system |-> v[3], idle |-> v[4],
     io_wait |-> v[5], irq |-> v[6], soft_irq |-> v[7], steal |-> v[8],
     guest |-> v[9], guest_nice |-> v[10]]

\* a + b + c + ... in float, added from the left
RECURSIVE FSum(_)
FSum(fs) ==
    IF Len(fs) = 1 THEN fs[1]
    ELSE FAdd(FSum(SubSeq(fs, 1, Len(fs) - 1)), fs[Len(fs)])

\* user + system + idle + nice + io_wait + irq + soft_irq + steal
CpuTotalTime(c) ==
    FSum(<<c.user, c.system, c.idle, c.nice, c.io_wait, c.irq, c.soft_irq, c.steal>>)

\* user + system + nice + irq + soft_irq + steal
CpuBusyTime(c) == FSum(<<c.user, c.system, c.nice, c.irq, c.soft_irq, c.steal>>)

\* new_cpu_total_time - old_cpu_total_time
TotalTimeDiff(cur, old) == FSub(CpuTotalTime(cur), CpuTotalTime(old))

\* a message as add_cpu_stat() creates it: no name, every percentage 0
EmptyCpuStatMsg ==
    [cpu_name |-> <<>>, cpu_percent |-> Ratio(0, 1), usr_percent |-> Ratio(0, 1),
     system_percent |-> Ratio(0, 1), nice_percent |-> Ratio(0, 1),
     idle_percent |-> Ratio(0, 1), io_wait_percent |-> Ratio(0, 1),
     irq_percent |-> Ratio(0, 1), soft_irq_percent |-> Ratio(0, 1)]

\* the message after the setters in  if (total_time_diff > 0) { ... }
FilledCpuStatMsg(cur, old) ==
    LET diff == TotalTimeDiff(cur, old)
    IN  [cpu_name         |-> cur.cpu_name,
         cpu_percent      |-> FPercent(FSub(CpuBusyTime(cur), CpuBusyTime(old)), diff),
         usr_percent      |-> FPercent(FSub(cur.user, old.user), diff),
         system_percent   |-> FPercent(FSub(cur.system, old.system), diff),
         nice_percent     |-> FPercent(FSub(cur.nice, old.nice), diff),
         idle_percent     |-> FPercent(FSub(cur.idle, old.idle), diff),
         io_wait_percent  |-> FPercent(FSub(cur.io_wait, old.io_wait), diff),
         irq_percent      |-> FPercent(FSub(cur.irq, old.irq), diff),
         soft_irq_percent |-> FPercent(FSub(cur.soft_irq, old.soft_irq), diff)]

\* what the found-branch adds to the cpu_stat list: add_cpu_stat() is called as
\* soon as the old sample is found, the setters only if total_time_diff > 0
CpuStatAdded(cur, old) ==
    IF TotalTimeDiff(cur, old).num > 0
    THEN <<FilledCpuStatMsg(cur, old)>>
    ELSE <<EmptyCpuStatMsg>>

\* a store that keeps the entry an entity already has
CpuStatStoredIfAbsent(hist, nm, cur) == IF nm \in DOMAIN hist THEN hist ELSE Put(hist, nm, cur)

\* what is stored by cpu_stat_map_[cpu_stat.cpu_name] = cpu_stat
CpuStatStored(hist, nm, cur) == Put(hist, nm, cur)

\* the body of the while loop for one record
CpuStatRow(st, args, ub) ==
    IF st.status # "ok" \/ ~IsCpuRow(args) THEN st
    ELSE
    LET nm == args[1]
        p  == CpuStatParse(args, ub)
    IN  IF ~p.ok THEN Terminated(st)
        ELSE
        LET cur   == CpuStat(nm, p.val)
            had   == nm \in DOMAIN st.hist
            added == IF had THEN CpuStatAdded(cur, st.hist[nm]) ELSE <<>>
            after == CpuStatStored(st.hist, nm, cur)
        IN  [st EXCEPT !.hist = after, !.out = st.out \o added,
                       !.log = Append(st.log, LogEntry(nm, st.hist, cur, added, after))]

RECURSIVE CpuStatRows(_, _, _, _)
CpuStatRows(st, rows, i, ub) ==
    IF i > Len(rows) THEN st
    ELSE CpuStatRows(CpuStatRow(st, rows[i], ub), rows, i + 1, ub)

\* the whole call on source f
CpuStatUpdateOnce(f, hist, out, t, ub) ==
    CpuStatRows(CallStart(hist, out, t), Records[f], 1, ub)

----------------------------------------------------------------------------
(* CpuLoadMonitor::UpdateOnce *)

\* the whole call on source f: one ReadLine, three std::stof, three setters;
\* cpu_load[i] of a vector ReadLine left empty is an undefined read
CpuLoadUpdateOnce(f, ub) ==
    LET cpu_load == FirstRecord[f].args
        word == [k \in 1..3 |-> At(cpu_load, k - 1, ub)]
        conv == [k \in 1..3 |-> Stof(word[k].word)]
    IN  IF \E k \in 1..3 : word[k].fault \/ ~conv[k].ok
        THEN [status |-> "terminated", out |-> <<>>]
        ELSE [status |-> "ok",
              out |-> <<[load_avg_1 |-> conv[1].val, load_avg_3 |-> conv[2].val,
                         load_avg_15 |-> conv[3].val]>>]

----------------------------------------------------------------------------
(* MemMonitor::UpdateOnce *)

\* the binary divisor
KiBToGiB == 1024 * 1024

\* static constexpr float KBToGB = 1000 * 1000
KBToGB == 1000 * 1000

\* struct MenInfo mem_info;  no member is initialised
Indeterminate(ub) == IF ub.word = <<>> THEN 0 ELSE 7

UninitMenInfo(ub) == [m \in MemMembers |-> Indeterminate(ub)]

\* the body of the while loop for one record
MemRow(st, args, ub) ==
    IF st.status # "ok" \/ ~\E k \in 1..Len(MemTable) : MemTable[k].label = args[1]
    THEN st
    ELSE
    LET k    == CHOOSE j \in 1..Len(MemTable) : MemTable[j].label = args[1]
        word == At(args, 1, ub)
        conv == Stoll(word.word)
    IN  IF word.fault \/ ~conv.ok THEN [st EXCEPT !.status = "terminated"]
        ELSE [st EXCEPT !.mem_info[MemTable[k].member] = conv.val]

RECURSIVE MemRows(_, _, _, _)
MemRows(st, rows, i, ub) ==
    IF i > Len(rows) THEN st
    ELSE MemRows(MemRow(st, rows[i], ub), rows, i + 1, ub)

\* mem_info.x / KBToGB: the int64 is converted to float, then divided
MemGauge(x) == Ratio(FRound(x), KBToGB)

\* the share of the memory that is not free
UsedPercentOfFree(mem_info) == Ratio(100 * (mem_info.total - mem_info.free), mem_info.total)

\* (mem_info.total - mem_info.avail) * 1.0 / mem_info.total * 100.0
UsedPercent(mem_info) == Ratio(100 * (mem_info.total - mem_info.avail), mem_info.total)

\* the message filled through mutable_mem_info()
MemMsg(mem_info) ==
    [s \in {MemTable[k].setter : k \in 1..Len(MemTable)} |->
        LET k == CHOOSE j \in 1..Len(MemTable) : MemTable[j].setter = s
        IN  MemGauge(mem_info[MemTable[k].member])]

\* the whole call on source f
MemUpdateOnce(f, ub) ==
    LET st == MemRows([status |-> "ok", mem_info |-> UninitMenInfo(ub)],
                      Records[f], 1, ub)
    IN  IF st.status # "ok" THEN [status |-> "terminated", out |-> <<>>]
        ELSE [status |-> "ok",
              out |-> <<[used_percent |-> UsedPercent(st.mem_info),
                         gauge |-> MemMsg(st.mem_info)]>>]

----------------------------------------------------------------------------
(* The runs that are explored *)

\* the monitors in the order of runners_
Monitors == <<"softirq", "load", "stat", "mem", "net">>

MonitorNames == {Monitors[k] : k \in 1..Len(Monitors)}

\* what makes a run: the source of one monitor varies, or the sleeps vary in
\* length, or the environment of the process varies, or the machine has been up
\* for two days, or the server cannot always be reached
Workloads == MonitorNames \cup {"clock", "host", "uptime", "transport"}

\* the sources a monitor may find in iteration k: in a run, one source varies
\* freely and the others are the ones of a healthy machine
Sources(monitor, k) ==
    IF workload = monitor THEN Varying[monitor]
    ELSE IF workload = "uptime" /\ monitor = "stat" THEN {StatLong(k)}
    ELSE {Healthy[monitor][k]}

\* the steady clock of the machine: two now() calls of one monitor call give the
\* same value, or values one apart
ClockGrains == IF workload \in {"softirq", "net"} THEN {0, 1} ELSE {0}

\* std::this_thread::sleep_for(std::chrono::seconds(3))
SleepSeconds == 3

\* how much longer than asked a sleep may last
Oversleep == IF workload = "clock" THEN {0, 2} ELSE {0}

\* status.ok() of a stub call
StubStatuses == IF workload = "transport" THEN BOOLEAN ELSE {TRUE}

----------------------------------------------------------------------------
(* The collection thread of linux_monitor's main() *)

\* getenv("USER"): a null pointer, or the value
NullPtr == "(null)"
Environment == {NullPtr, "alice"}

\* monitor::proto::MonitorInfo monitor_info;  then set_name(...)
\* a message field that is not set is the empty sequence
NewMonitorInfo(host) ==
    [name |-> host, cpu_load |-> <<>>, cpu_stat |-> <<>>, soft_irq |-> <<>>,
     mem_info |-> <<>>, net_info |-> <<>>]

\* a loop that has no default for a null pointer
HostNameNoFallback(env) == env

\* if (name) set_name(std::string(name)); else set_name("unknown_host");
HostName(env) == IF env # NullPtr THEN env ELSE "unknown_host"

NoSource == [open |-> FALSE, text |-> <<"-">>]

NothingRead == [m \in MonitorNames |-> NoSource]

NoCall == [monitor |-> "none", log |-> <<>>]

\* a loop that publishes as soon as the memory monitor has returned
AfterSkipsNet(monitor, status) ==
    IF status # "ok" THEN "terminated"
    ELSE CASE monitor = "softirq" -> "load"
           [] monitor = "load"    -> "stat"
           [] monitor = "stat"    -> "mem"
           [] monitor = "mem"     -> "publish"
           [] monitor = "net"     -> "publish"

\* where the thread goes after a monitor call
After(monitor, status) ==
    IF status # "ok" THEN "terminated"
    ELSE CASE monitor = "softirq" -> "load"
           [] monitor = "load"    -> "stat"
           [] monitor = "stat"    -> "mem"
           [] monitor = "mem"     -> "net"
           [] monitor = "net"     -> "publish"

\* the SetMonitorInfo calls made in iteration k
RECURSIVE CallsOf(_, _)
CallsOf(calls, k) ==
    IF calls = <<>> THEN <<>>
    ELSE (IF Head(calls).tick = k THEN <<Head(calls)>> ELSE <<>>) \o CallsOf(Tail(calls), k)

\* while (true) { monitor::proto::MonitorInfo monitor_info; set_name(...);
BeginTick ==
    /\ pc = "begin"
    /\ tick < MaxTick
    /\ tick' = tick + 1
    /\ monitor_info' = NewMonitorInfo(HostName(name))
    /\ proc' = NothingRead
    /\ trace' = NoCall
    /\ rpc' = CallsOf(rpc, tick)
    /\ pc' = "softirq"
    /\ UNCHANGED <<workload, name, grain, now, cpu_softirqs_, cpu_stat_map_, net_info_>>
    /\ UNCHANGED <<cacheVars, display>>

RunSoftIrq ==
    /\ pc = "softirq"
    /\ \E call \in {[file |-> f,
                      res |-> SoftIrqUpdateOnce(f, cpu_softirqs_, monitor_info.soft_irq,
                                                now, ub, grain)] :
                     f \in Sources("softirq", tick), ub \in UBOutcomes} :
         LET r == call.res
             f == call.file
         IN  /\ cpu_softirqs_' = r.hist
             /\ monitor_info' = [monitor_info EXCEPT !.soft_irq = r.out]
             /\ now' = r.clock
             /\ trace' = [monitor |-> "softirq", log |-> r.log]
             /\ proc' = [proc EXCEPT !["softirq"] = f]
             /\ pc' = After("softirq", r.status)
    /\ UNCHANGED <<workload, name, grain, tick, cpu_stat_map_, net_info_, rpc>>
    /\ UNCHANGED <<cacheVars, display>>

RunCpuLoad ==
    /\ pc = "load"
    /\ \E call \in {[file |-> f, res |-> CpuLoadUpdateOnce(f, ub)] :
                     f \in Sources("load", tick), ub \in UBOutcomes} :
         LET r == call.res
             f == call.file
         IN  /\ monitor_info' = IF r.status = "ok"
                                THEN [monitor_info EXCEPT !.cpu_load = r.out]
                                ELSE monitor_info
             /\ trace' = [monitor |-> "load", log |-> <<>>]
             /\ proc' = [proc EXCEPT !["load"] = f]
             /\ pc' = After("load", r.status)
    /\ UNCHANGED <<workload, name, grain, tick, now, cpu_softirqs_, cpu_stat_map_, net_info_, rpc>>
    /\ UNCHANGED <<cacheVars, display>>

RunCpuStat ==
    /\ pc = "stat"
    /\ \E call \in {[file |-> f,
                      res |-> CpuStatUpdateOnce(f, cpu_stat_map_, monitor_info.cpu_stat,
                                                now, ub)] :
                     f \in Sources("stat", tick), ub \in UBOutcomes} :
         LET r == call.res
             f == call.file
         IN  /\ cpu_stat_map_' = r.hist
             /\ monitor_info' = [monitor_info EXCEPT !.cpu_stat = r.out]
             /\ trace' = [monitor |-> "stat", log |-> r.log]
             /\ proc' = [proc EXCEPT !["stat"] = f]
             /\ pc' = After("stat", r.status)
    /\ UNCHANGED <<workload, name, grain, tick, now, cpu_softirqs_, net_info_, rpc>>
    /\ UNCHANGED <<cacheVars, display>>

RunMem ==
    /\ pc = "mem"
    /\ \E call \in {[file |-> f, res |-> MemUpdateOnce(f, ub)] :
                     f \in Sources("mem", tick), ub \in UBOutcomes} :
         LET r == call.res
             f == call.file
         IN  /\ monitor_info' = IF r.status = "ok"
                                THEN [monitor_info EXCEPT !.mem_info = r.out]
                                ELSE monitor_info
             /\ trace' = [monitor |-> "mem", log |-> <<>>]
             /\ proc' = [proc EXCEPT !["mem"] = f]
             /\ pc' = After("mem", r.status)
    /\ UNCHANGED <<workload, name, grain, tick, now, cpu_softirqs_, cpu_stat_map_, net_info_, rpc>>
    /\ UNCHANGED <<cacheVars, display>>

RunNet ==
    /\ pc = "net"
    /\ \E call \in {[file |-> f,
                      res |-> NetUpdateOnce(f, net_info_, monitor_info.net_info,
                                            now, ub, grain)] :
                     f \in Sources("net", tick), ub \in UBOutcomes} :
         LET r == call.res
             f == call.file
         IN  /\ net_info_' = r.hist
             /\ monitor_info' = [monitor_info EXCEPT !.net_info = r.out]
             /\ now' = r.clock
             /\ trace' = [monitor |-> "net", log |-> r.log]
             /\ proc' = [proc EXCEPT !["net"] = f]
             /\ pc' = After("net", r.status)
    /\ UNCHANGED <<workload, name, grain, tick, cpu_softirqs_, cpu_stat_map_, rpc>>
    /\ UNCHANGED <<cacheVars, display>>

\* a client that calls the stub again when the status is not ok
PublishRetries(ok) == IF ok THEN "sleep" ELSE "publish"

\* RpcClient::SetMonitorInfo after the stub call: if (!status.ok()) the status is
\* printed; for every status the function returns, and the loop goes on to sleep_for
PublishReturns(ok) == "sleep"

\* rpc_client_.SetMonitorInfo(monitor_info): one stub call with the message of this
\* iteration, whose status is ok or not
Publish ==
    /\ pc = "publish"
    /\ \E ok \in StubStatuses :
         /\ rpc' = Append(rpc, [request |-> monitor_info, ok |-> ok, tick |-> tick])
         /\ pc' = PublishReturns(ok)
    /\ UNCHANGED <<workload, name, grain, tick, now, monitor_info, cpu_softirqs_, cpu_stat_map_,
                   net_info_, proc, trace>>
    /\ UNCHANGED <<cacheVars, display>>

\* std::this_thread::sleep_for(std::chrono::seconds(3)); }
Sleep ==
    /\ pc = "sleep"
    /\ \E late \in Oversleep : now' = now + SleepSeconds + late
    /\ pc' = "begin"
    /\ UNCHANGED <<workload, name, grain, tick, monitor_info, cpu_softirqs_, cpu_stat_map_,
                   net_info_, proc, trace, rpc>>
    /\ UNCHANGED <<cacheVars, display>>

----------------------------------------------------------------------------
(* The loop over runners_, with the monitors placed in runners_ in any order *)

\* two monitors that fill the same part of the snapshot
WritesOverlapping ==
    [softirq |-> "soft_irq", load |-> "cpu_load", stat |-> "cpu_stat",
     mem |-> "cpu_load", net |-> "net_info"]

\* the part of the snapshot each monitor fills: add_soft_irq(), mutable_cpu_load(),
\* add_cpu_stat(), mutable_mem_info(), add_net_info()
Writes ==
    [softirq |-> "soft_irq", load |-> "cpu_load", stat |-> "cpu_stat",
     mem |-> "mem_info", net |-> "net_info"]

\* the members of the three monitors that keep samples, and the snapshot
Members ==
    [status |-> "ok", info |-> monitor_info,
     hist |-> [softirq |-> cpu_softirqs_, stat |-> cpu_stat_map_, net |-> net_info_]]

\* the UpdateOnce of monitor m, on its own member and its own part of the snapshot
RunnerCall(m, st, f, ub, t, adv) ==
    CASE m = "softirq" -> SoftIrqUpdateOnce(f, st.hist.softirq, st.info[Writes[m]], t, ub, adv)
      [] m = "load"    -> CpuLoadUpdateOnce(f, ub)
      [] m = "stat"    -> CpuStatUpdateOnce(f, st.hist.stat, st.info[Writes[m]], t, ub)
      [] m = "mem"     -> MemUpdateOnce(f, ub)
      [] m = "net"     -> NetUpdateOnce(f, st.hist.net, st.info[Writes[m]], t, ub, adv)

\* what the call r of monitor m leaves: its part of the snapshot and its member
AfterCall(m, st, r) ==
    [status |-> r.status,
     info   |-> IF m \in {"load", "mem"} /\ r.status # "ok" THEN st.info
                ELSE [st.info EXCEPT ![Writes[m]] = r.out],
     hist   |-> IF m \in DOMAIN st.hist THEN [st.hist EXCEPT ![m] = r.hist]
                ELSE st.hist]

\* runner->UpdateOnce(&monitor_info) of monitor m on source f, the steady clock
\* reading t when the call begins; no call is made after the process has ended
UpdateOnce(m, st, f, ub, t, adv) ==
    IF st.status # "ok" THEN st ELSE AfterCall(m, st, RunnerCall(m, st, f, ub, t, adv))

\* for (auto& runner : runners_) runner->UpdateOnce(&monitor_info), from runner i on
RECURSIVE RunInOrder(_, _, _, _, _, _, _)
RunInOrder(runners, i, st, src, ub, t, adv) ==
    IF i > Len(runners) THEN st
    ELSE RunInOrder(runners, i + 1,
                    UpdateOnce(runners[i], st, src[runners[i]], ub[runners[i]], t, adv),
                    src, ub, t, adv)

\* the outcome of an undefined read that is recorded for a call without one
Faulting == [fault |-> TRUE, word |-> <<>>]

\* the sources of a healthy machine have every row and column that is read
UndefinedReads(m) == IF m = workload THEN UBOutcomes ELSE {Faulting}

\* the iteration begins; what the members are now is kept for the comparison
OrderBegin ==
    /\ pc = "begin"
    /\ tick < MaxTick
    /\ tick' = tick + 1
    /\ monitor_info' = NewMonitorInfo(HostName(name))
    /\ proc' = NothingRead
    /\ trace' = [monitor |-> "order", log |-> <<>>, ran |-> {}, last |-> "none",
                 ub |-> [m \in MonitorNames |-> Faulting],
                 start |-> [Members EXCEPT !.info = monitor_info']]
    /\ rpc' = CallsOf(rpc, tick)
    /\ pc' = "run"
    /\ UNCHANGED <<workload, name, grain, now, cpu_softirqs_, cpu_stat_map_, net_info_>>
    /\ UNCHANGED <<cacheVars, display>>

\* the next runner of runners_ is monitor m
OrderRun(m) ==
    /\ pc = "run"
    /\ m \notin trace.ran
    /\ \E f \in Sources(m, tick), ub \in UndefinedReads(m) :
       \E st \in {UpdateOnce(m, Members, f, ub, now, grain)} :
         /\ monitor_info' = st.info
         /\ cpu_softirqs_' = st.hist.softirq
         /\ cpu_stat_map_' = st.hist.stat
         /\ net_info_' = st.hist.net
         /\ proc' = [proc EXCEPT ![m] = f]
         /\ trace' = [trace EXCEPT
                         !.ran = @ \cup {m}, !.last = m,
                         !.ub[m] = IF UpdateOnce(m, Members, f, Faulting, now, grain) = st
                                   THEN Faulting ELSE ub]
         /\ pc' = IF st.status # "ok" THEN "terminated"
                  ELSE IF trace.ran \cup {m} = MonitorNames THEN "publish"
                  ELSE "run"
    /\ UNCHANGED <<workload, name, grain, tick, now, rpc>>
    /\ UNCHANGED <<cacheVars, display>>

----------------------------------------------------------------------------
(* The gRPC server: GrpcManagerImpl, one handler call per server thread *)

\* SetMonitorInfo calls that are explored
MaxSets == 2

\* the display client whose GetMonitorInfo calls the server runs
Getters == {"display"}

\* the fields of a MonitorInfo, in the order a copy goes through them
Fields == <<"name", "soft_irq", "cpu_load", "cpu_stat", "mem_info", "net_info">>

RepeatedFields == {"soft_irq", "cpu_stat", "net_info"}

\* a default-constructed MonitorInfo
EmptyInfo == NewMonitorInfo("")

\* a call of MonitorInfo::Clear() that leaves the message as it is
NotCleared(msg) == msg

\* MonitorInfo::Clear()
Clear(msg) == EmptyInfo

\* what MonitorInfo::MergeFrom(from) does to one field of msg: a repeated field
\* is appended to, another field is overwritten when it is set in from
MergeField(msg, from, fld) ==
    IF fld \in RepeatedFields THEN [msg EXCEPT ![fld] = msg[fld] \o from[fld]]
    ELSE IF fld = "name" THEN [msg EXCEPT !.name = IF from.name # "" THEN from.name ELSE @]
    ELSE [msg EXCEPT ![fld] = IF from[fld] # <<>> THEN from[fld] ELSE @]

\* the request of the n-th SetMonitorInfo call; the payload n stands for the
\* data of that call.  Every second request is a collector's first snapshot, which
\* has no rate or percentage records
Request(n) ==
    [name |-> "alice",
     soft_irq |-> IF n % 2 = 0 THEN <<>> ELSE <<n, n>>,
     cpu_load |-> <<n>>,
     cpu_stat |-> IF n % 2 = 0 THEN <<>> ELSE <<n, n>>,
     mem_info |-> <<n>>,
     net_info |-> IF n % 2 = 0 THEN <<>> ELSE <<n, n>>]

IdleSetter == [pc |-> "idle", k |-> 0, request |-> EmptyInfo]

\* began: the SetMonitorInfo calls completed when the call began; alone: no
\* SetMonitorInfo call has been in progress during the call
IdleGetter == [pc |-> "idle", k |-> 0, response |-> EmptyInfo, began |-> 0, alone |-> TRUE]

\* a SetMonitorInfo call arrives: a server thread enters the handler
SetBegin ==
    /\ setter.pc = "idle"
    /\ nset < MaxSets
    /\ nset' = nset + 1
    /\ setter' = [pc |-> "clear", k |-> 0, request |-> Request(nset + 1)]
    /\ getters' = [g \in Getters |->
                     IF getters[g].pc = "merge" THEN [getters[g] EXCEPT !.alone = FALSE]
                     ELSE getters[g]]
    /\ UNCHANGED monitor_infos_
    /\ UNCHANGED <<collectorVars, display>>

\* monitor_infos_.Clear();
SetClear ==
    /\ setter.pc = "clear"
    /\ monitor_infos_' = Clear(monitor_infos_)
    /\ setter' = [setter EXCEPT !.pc = "assign"]
    /\ UNCHANGED <<getters, nset>>
    /\ UNCHANGED <<collectorVars, display>>

\* monitor_infos_ = *request;  operator= is CopyFrom: Clear(), then MergeFrom
SetAssign ==
    /\ setter.pc = "assign"
    /\ monitor_infos_' = Clear(monitor_infos_)
    /\ setter' = [setter EXCEPT !.pc = "merge", !.k = 1]
    /\ UNCHANGED <<getters, nset>>
    /\ UNCHANGED <<collectorVars, display>>

\* MergeFrom(*request), one field
SetMerge ==
    /\ setter.pc = "merge"
    /\ monitor_infos_' = MergeField(monitor_infos_, setter.request, Fields[setter.k])
    /\ setter' = IF setter.k = Len(Fields) THEN [setter EXCEPT !.pc = "return"]
                 ELSE [setter EXCEPT !.k = @ + 1]
    /\ UNCHANGED <<getters, nset>>
    /\ UNCHANGED <<collectorVars, display>>

\* return grpc::Status::OK;
SetReturn ==
    /\ setter.pc = "return"
    /\ setter' = IdleSetter
    /\ UNCHANGED <<monitor_infos_, getters, nset>>
    /\ UNCHANGED <<collectorVars, display>>

\* a GetMonitorInfo call arrives: the response is a new, empty MonitorInfo
GetBegin(g) ==
    /\ getters[g].pc \in {"idle", "done"}
    /\ getters' = [getters EXCEPT ![g] =
                     [pc |-> "merge", k |-> 1, response |-> EmptyInfo,
                      began |-> IF setter.pc = "idle" THEN nset ELSE nset - 1,
                      alone |-> setter.pc = "idle"]]
    /\ UNCHANGED <<monitor_infos_, setter, nset>>
    /\ UNCHANGED <<collectorVars, display>>

\* *response = monitor_infos_;  MergeFrom(monitor_infos_), one field; after the
\* last field the handler returns grpc::Status::OK with the response
GetMerge(g) ==
    /\ getters[g].pc = "merge"
    /\ getters' = [getters EXCEPT ![g] =
                     [@ EXCEPT !.response = MergeField(@, monitor_infos_, Fields[getters[g].k]),
                               !.k = IF @ = Len(Fields) THEN 0 ELSE @ + 1,
                               !.pc = IF getters[g].k = Len(Fields) THEN "done" ELSE @]]
    /\ UNCHANGED <<monitor_infos_, setter, nset>>
    /\ UNCHANGED <<collectorVars, display>>

\* a server whose stored snapshot starts with the data of an earlier run
CacheInitStale ==
    /\ monitor_infos_ = Request(1)
    /\ setter = IdleSetter
    /\ getters = [g \in Getters |-> IdleGetter]
    /\ nset = 0

----------------------------------------------------------------------------
(* display_monitor: main() fetches once, then its thread polls *)

\* what a stub call that failed may have left in the response object: nothing, or
\* the part of the reply it had parsed
StubLeaves(msg) == {msg, [msg EXCEPT !.name = "alice"]}

\* a client that leaves the response as the failed call left it
FetchFailedKeeps(msg) == msg

\* RpcClient::GetMonitorInfo: if (!status.ok()) { ...; monito_info->Clear(); }
FetchFailed(msg) == Clear(msg)

\* RpcClient::GetMonitorInfo(&monitor_info): the stub call succeeds with the reply
\* of a GetMonitorInfo handler that has returned, or it fails
GetMonitorInfo(msg) ==
    {[ok |-> TRUE, info |-> getters[g].response] : g \in {h \in Getters : getters[h].pc = "done"}}
    \cup {[ok |-> FALSE, info |-> FetchFailed(left)] : left \in StubLeaves(msg)}

\* main(): monitor_info is declared; the first call is made before the thread starts
DisplayInit ==
    display = [pc |-> "first", monitor_info |-> EmptyInfo, ok |-> TRUE,
               shown |-> [info |-> EmptyInfo, ok |-> TRUE]]

\* rpc_client.GetMonitorInfo(&monitor_info); name = monitor_info.name();
DisplayFirst ==
    /\ display.pc = "first"
    /\ \E r \in GetMonitorInfo(display.monitor_info) :
         display' = [display EXCEPT !.pc = "clear", !.monitor_info = r.info, !.ok = r.ok]
    /\ UNCHANGED <<collectorVars, cacheVars>>

\* while (true) { monitor_info.Clear();
DisplayClear ==
    /\ display.pc = "clear"
    /\ display' = [display EXCEPT !.pc = "fetch", !.monitor_info = Clear(@)]
    /\ UNCHANGED <<collectorVars, cacheVars>>

\* rpc_client.GetMonitorInfo(&monitor_info);
DisplayFetch ==
    /\ display.pc = "fetch"
    /\ \E r \in GetMonitorInfo(display.monitor_info) :
         display' = [display EXCEPT !.pc = "update", !.monitor_info = r.info, !.ok = r.ok]
    /\ UNCHANGED <<collectorVars, cacheVars>>

\* moitor_widget.UpdateData(monitor_info); sleep_for(seconds(2)); }
DisplayUpdate ==
    /\ display.pc = "update"
    /\ display' = [display EXCEPT !.pc = "clear",
                                  !.shown = [info |-> display.monitor_info, ok |-> display.ok]]
    /\ UNCHANGED <<collectorVars, cacheVars>>

----------------------------------------------------------------------------
(* display_monitor: MemModel, the table of the memory record *)

\* header_, as the constructor fills it
header_ ==
    <<"used_percent", "total", "free", "avail", "buffers", "cached", "swap_cached",
      "active", "in_active", "active_anon", "inactive_anon", "active_file",
      "inactive_file", "dirty", "writeback", "anon_pages", "mapped", "kReclaimable",
      "sReclaimable", "sUnreclaim">>

\* enum MemInfo, without COLUMN_MAX: USED_PERCENT = 0 is the first
MemInfo ==
    <<"USED_PERCENT", "TOTAL", "FREE", "AVAIL", "BUFFERS", "CACHED", "SWAP_CACHED",
      "ACTIVE", "INACTIVE", "ACTIVE_ANON", "INACTIVE_ANON", "DIRTY", "WRITEBACK",
      "ANON_PAGES", "MAPPED", "KRECLAIMABLE", "SRECLAIMABLE", "SUNRECLAIM">>

\* COLUMN_MAX, the enumerator after the last column
COLUMN_MAX == Len(MemInfo)

\* the switch of insert_one_mem_info: the getter of mem_info called in each case
CaseGetter ==
    [c \in 1..COLUMN_MAX |->
        CASE MemInfo[c] = "USED_PERCENT"  -> "used_percent"
          [] MemInfo[c] = "TOTAL"         -> "total"
          [] MemInfo[c] = "FREE"          -> "free"
          [] MemInfo[c] = "AVAIL"         -> "avail"
          [] MemInfo[c] = "BUFFERS"       -> "buffers"
          [] MemInfo[c] = "CACHED"        -> "cached"
          [] MemInfo[c] = "SWAP_CACHED"   -> "swap_cached"
          [] MemInfo[c] = "ACTIVE"        -> "active"
          [] MemInfo[c] = "INACTIVE"      -> "inactive"
          [] MemInfo[c] = "ACTIVE_ANON"   -> "active_anon"
          [] MemInfo[c] = "INACTIVE_ANON" -> "inactive_anon"
          [] MemInfo[c] = "DIRTY"         -> "dirty"
          [] MemInfo[c] = "WRITEBACK"     -> "writeback"
          [] MemInfo[c] = "ANON_PAGES"    -> "anon_pages"
          [] MemInfo[c] = "MAPPED"        -> "mapped"
          [] MemInfo[c] = "KRECLAIMABLE"  -> "kreclaimable"
          [] MemInfo[c] = "SRECLAIMABLE"  -> "sreclaimable"
          [] MemInfo[c] = "SUNRECLAIM"    -> "sunreclaim"]

\* mem_info.used_percent(), mem_info.total(), ...
MemField(mem_info, getter) ==
    IF getter = "used_percent" THEN mem_info.used_percent ELSE mem_info.gauge[getter]

\* insert_one_mem_info: for (i = USED_PERCENT; i < COLUMN_MAX; i++) one value is
\* pushed; column i counted from 0 is element i + 1
insert_one_mem_info(mem_info) ==
    [c \in 1..COLUMN_MAX |->
        [getter |-> CaseGetter[c], value |-> MemField(mem_info, CaseGetter[c])]]

\* GrpcManagerImpl(): monitor_infos_ is a default MonitorInfo; no call is running
CacheInit ==
    /\ monitor_infos_ = EmptyInfo
    /\ setter = IdleSetter
    /\ getters = [g \in Getters |-> IdleGetter]
    /\ nset = 0

CollectorInit ==
    /\ workload \in Workloads
    /\ name \in IF workload = "host" THEN Environment ELSE {"alice"}
    /\ grain \in ClockGrains
    /\ pc = "begin"
    /\ tick = 0
    /\ now = 0
    /\ monitor_info = NewMonitorInfo("")
    /\ cpu_softirqs_ = EmptyMap
    /\ cpu_stat_map_ = EmptyMap
    /\ net_info_ = EmptyMap
    /\ proc = NothingRead
    /\ trace = NoCall
    /\ rpc = <<>>

Init == CollectorInit /\ CacheInit /\ DisplayInit

Next ==
    \/ BeginTick
    \/ RunSoftIrq
    \/ RunCpuLoad
    \/ RunCpuStat
    \/ RunMem
    \/ RunNet
    \/ Publish
    \/ Sleep

Spec == Init /\ [][Next]_vars

\* the collection loop with runners_ filled in any order
OrderNext ==
    \/ OrderBegin
    \/ \E m \in MonitorNames : OrderRun(m)
    \/ Publish
    \/ Sleep

\* the runs in which the sources of the monitors without a history vary
OrderInit == Init /\ workload \in {"host", "load", "mem"}

OrderSpec == OrderInit /\ [][OrderNext]_vars

\* the server alone, its clients being other processes
ServerInit == Init /\ workload = "host" /\ name = "alice"

ServerNext ==
    \/ SetBegin
    \/ SetClear
    \/ SetAssign
    \/ SetMerge
    \/ SetReturn
    \/ \E g \in Getters : GetBegin(g)
    \/ \E g \in Getters : GetMerge(g)

CacheSpec == ServerInit /\ [][ServerNext]_vars

\* the display and the server; the server's threads are followed while the display
\* waits in a call
DisplayNext ==
    \/ DisplayFirst
    \/ DisplayClear
    \/ DisplayFetch
    \/ DisplayUpdate
    \/ (display.pc \in {"first", "fetch"} /\ ServerNext)

DisplaySpec == ServerInit /\ [][DisplayNext]_vars

----------------------------------------------------------------------------
(* Properties of the server's stored snapshot *)

\* the stored snapshot once n SetMonitorInfo calls have completed
Stored(n) == IF n = 0 THEN EmptyInfo ELSE Request(n)

\* C1: every response that a GetMonitorInfo call returns equals the complete
\* request of a SetMonitorInfo call, the last one completed when the get began or
\* a later one, or the initial empty snapshot if none had completed then; it is
\* never the cleared value or a partial copy
C1_GetReturnsCompleteSnapshot ==
    \A g \in Getters :
        getters[g].pc = "done" =>
            \E n \in getters[g].began..nset : getters[g].response = Stored(n)

\* a get that ran while the second set was in progress has returned
C1_Witness ==
    \E g \in Getters : getters[g].pc = "done" /\ ~getters[g].alone /\ getters[g].began = 1

\* C2: once set calls have completed, the last of them being set(B), the stored
\* snapshot is exactly B, and every get that runs with no set in progress
\* returns exactly B and leaves the stored snapshot as it is
C2_LastWriteWins ==
    /\ setter.pc = "idle" => monitor_infos_ = Stored(nset)
    /\ \A g \in Getters :
           getters[g].pc = "done" /\ getters[g].alone =>
               getters[g].response = Stored(getters[g].began)

\* the second set has completed and a get that began after it has returned its request
C2_Witness ==
    \E g \in Getters :
        /\ getters[g].pc = "done" /\ getters[g].alone /\ getters[g].began = 2
        /\ getters[g].response = Request(2)
        /\ setter.pc = "idle" /\ monitor_infos_ = Request(2)

----------------------------------------------------------------------------
(* Properties of the monitors, stated on the log of the last monitor call *)

Samplers == {"softirq", "stat", "net"}

\* the entries of the last call's log, when it was a call of one of ms
Entries(ms) == IF trace.monitor \in ms THEN {trace.log[i] : i \in 1..Len(trace.log)} ELSE {}

\* the history of the monitor that was called last
History ==
    CASE trace.monitor = "softirq" -> cpu_softirqs_
      [] trace.monitor = "stat"    -> cpu_stat_map_
      [] trace.monitor = "net"     -> net_info_
      [] OTHER                     -> EmptyMap

\* C3: for an entity with no entry in the history, UpdateOnce of the CPU-time,
\* soft-interrupt and network monitors stores the raw sample and adds no record
C3_FirstSampleSuppression ==
    \A e \in Entries(Samplers) : ~e.had => e.added = <<>> /\ e.after = <<e.raw>>

\* the first iteration is ready to be published: the three monitors have stored
\* samples, and none of the three lists has a record
C3_Witness ==
    /\ pc = "publish" /\ tick = 1
    /\ \E e \in Entries({"net"}) : ~e.had
    /\ DOMAIN cpu_softirqs_ # {} /\ DOMAIN cpu_stat_map_ # {} /\ DOMAIN net_info_ # {}
    /\ monitor_info.soft_irq = <<>> /\ monitor_info.cpu_stat = <<>>
    /\ monitor_info.net_info = <<>>

\* the network monitor was called on a source with an interface row one of whose
\* converted fields is not a number
NetParseFailure ==
    /\ trace.monitor = "net"
    /\ \E i \in 1..Len(Records[proc.net]) :
           LET row == Records[proc.net][i]
           IN  /\ IsInterfaceRow(row)
               /\ \E k \in 1..Len(NetFieldIndex) :
                      /\ NetFieldIndex[k] < Len(row)
                      /\ ~Stoll(row[NetFieldIndex[k] + 1]).ok

\* C4: when the network monitor meets a malformed record, the iteration still
\* publishes a snapshot, and that snapshot has the load and memory domains
C4_NetFailureKeepsOtherDomains ==
    NetParseFailure =>
        /\ pc \in {"publish", "sleep"}
        /\ monitor_info.cpu_load # <<>> /\ monitor_info.mem_info # <<>>
        /\ pc = "sleep" => rpc # <<>> /\ rpc[Len(rpc)].request = monitor_info

\* C5: the collection thread never stops: whatever the sources held and whatever
\* the status of the publish call, the thread stays in its loop
C5_LoopNeverStops == pc # "terminated"

\* a publish call failed and the thread went on to its next iteration
C5_Witness == pc = "begin" /\ tick >= 1 /\ rpc # <<>> /\ ~rpc[Len(rpc)].ok

\* C6: every record of the CPU-time, soft-interrupt and network lists carries
\* the name of its entity; an entity with no prior sample or with a total delta
\* that is not positive has no record
C6_NoPlaceholderRecords ==
    /\ \A i \in 1..Len(monitor_info.cpu_stat) : monitor_info.cpu_stat[i].cpu_name # <<>>
    /\ \A i \in 1..Len(monitor_info.soft_irq) : monitor_info.soft_irq[i].cpu # <<>>
    /\ \A i \in 1..Len(monitor_info.net_info) : monitor_info.net_info[i].name # <<>>
    /\ \A e \in Entries({"stat"}) :
           e.had /\ TotalTimeDiff(e.raw, e.before[1]).num <= 0 => e.added = <<>>

\* C7: in the network and soft-interrupt monitors, a sample whose timestamp is
\* not later than the stored one's adds no record, and no record holds a
\* quotient by an elapsed time that is not positive
C7_ElapsedTimeGuard ==
    /\ \A e \in Entries({"softirq", "net"}) :
           e.had /\ e.raw.timepoint <= e.before[1].timepoint => e.added = <<>>
    /\ \A i \in 1..Len(monitor_info.net_info) :
           monitor_info.net_info[i].rcv_packets_rate.den > 0
    /\ \A i \in 1..Len(monitor_info.soft_irq) : monitor_info.soft_irq[i].hi.den > 0

\* the network monitor has met an interface twice at the same time
C7_Witness ==
    \E e \in Entries({"net"}) :
        e.had /\ e.raw.timepoint = e.before[1].timepoint /\ e.added = <<>>

\* C8: every record processed replaces the entity's history entry by the raw
\* sample, also when no record was added, so the history of an entity is the
\* raw sample of the last record read for it
C8_HistoryReplaced ==
    /\ \A e \in Entries(Samplers) : e.after = <<e.raw>>
    /\ \A i \in 1..Len(trace.log) :
           trace.monitor \in Samplers
           /\ (\A j \in (i + 1)..Len(trace.log) : trace.log[j].name # trace.log[i].name)
           => /\ trace.log[i].name \in DOMAIN History
              /\ History[trace.log[i].name] = trace.log[i].raw

\* an entity with a prior sample got no record, and its history entry changed
C8_Witness ==
    \E e \in Entries({"net"}) :
        e.had /\ e.added = <<>> /\ e.before # <<e.raw>> /\ net_info_[e.name] = e.raw

SoftIrqCounters ==
    {"hi", "timer", "net_tx", "net_rx", "block", "irq_poll", "tasklet", "sched",
     "hrtimer", "rcu"}

\* C9: with a prior sample (c0, t0) and a current sample (c1, t1), t1 > t0, each
\* rate emitted is (c1 - c0) / (t1 - t0), the byte rates divided by 1024 in addition
C9_RateCorrectness ==
    /\ \A e \in Entries({"net"}) :
           e.had /\ e.raw.timepoint > e.before[1].timepoint =>
               LET c0 == e.before[1]
                   c1 == e.raw
                   dt == c1.timepoint - c0.timepoint
               IN  /\ Len(e.added) = 1
                   /\ e.added[1].name = e.name
                   /\ RatioEq(e.added[1].send_rate,
                              Ratio(c1.snd_bytes - c0.snd_bytes, 1024 * dt))
                   /\ RatioEq(e.added[1].rcv_rate,
                              Ratio(c1.rcv_bytes - c0.rcv_bytes, 1024 * dt))
                   /\ RatioEq(e.added[1].send_packets_rate,
                              Ratio(c1.snd_packets - c0.snd_packets, dt))
                   /\ RatioEq(e.added[1].rcv_packets_rate,
                              Ratio(c1.rcv_packets - c0.rcv_packets, dt))
    /\ \A e \in Entries({"softirq"}) :
           e.had /\ e.raw.timepoint > e.before[1].timepoint =>
               LET c0 == e.before[1]
                   c1 == e.raw
                   dt == c1.timepoint - c0.timepoint
               IN  /\ Len(e.added) = 1
                   /\ e.added[1].cpu = e.name
                   /\ \A c \in SoftIrqCounters :
                          RatioEq(e.added[1][c], Ratio(c1[c] - c0[c], dt))

\* a packet counter read as 100 and, 5 seconds later, as 1100 gave 200 per second
C9_Witness ==
    \E e \in Entries({"net"}) :
        /\ e.had /\ e.before[1].rcv_packets = 100 /\ e.raw.rcv_packets = 1100
        /\ e.raw.timepoint - e.before[1].timepoint = 5
        /\ RatioEq(e.added[1].rcv_packets_rate, Ratio(200, 1))

\* the components that are accounted in the total, and the percentage of each
CpuComponents ==
    {<<"user", "usr_percent">>, <<"system", "system_percent">>,
     <<"nice", "nice_percent">>, <<"idle", "idle_percent">>,
     <<"io_wait", "io_wait_percent">>, <<"irq", "irq_percent">>,
     <<"soft_irq", "soft_irq_percent">>}

\* the delta of the jiffies of one component, the counters being whole numbers
Delta(e, c) == e.raw[c].num - e.before[1][c].num

\* the sum of the deltas of user, nice, system, idle, iowait, irq, softirq, steal
DeltaTotal(e) ==
    Delta(e, "user") + Delta(e, "nice") + Delta(e, "system") + Delta(e, "idle")
    + Delta(e, "io_wait") + Delta(e, "irq") + Delta(e, "soft_irq") + Delta(e, "steal")

\* whether two percentages differ by no more than a hundredth
Near(x, y) ==
    LET a == Reduce(x)
        b == Reduce(y)
    IN  /\ a.den > 0 /\ b.den > 0
        /\ 100 * Abs(a.num * b.den - b.num * a.den) <= a.den * b.den

\* C10: for a CPU entity with a prior sample and a positive total delta, each
\* percentage emitted is the delta of its component / the total delta * 100, the
\* total being the sum of the deltas of the eight accounted components
C10_PercentagePartition ==
    \A e \in Entries({"stat"}) :
        e.had /\ DeltaTotal(e) > 0 =>
            /\ Len(e.added) = 1
            /\ \A c \in CpuComponents :
                   Near(e.added[1][c[2]], Ratio(100 * Delta(e, c[1]), DeltaTotal(e)))

\* a total delta of 1000 with a user delta of 300 and a guest delta gave 30
C10_Witness ==
    \E e \in Entries({"stat"}) :
        /\ e.had /\ DeltaTotal(e) = 1000 /\ Delta(e, "user") = 300
        /\ Delta(e, "guest") > 0
        /\ RatioEq(e.added[1].usr_percent, Ratio(30, 1))

----------------------------------------------------------------------------
(* C11: a get before any set *)

\* the fields of a snapshot that carry data
DataFields == {"soft_irq", "cpu_load", "cpu_stat", "mem_info", "net_info"}

\* C11: a GetMonitorInfo call that has returned while no SetMonitorInfo call has
\* ever arrived returns the default snapshot: the host name is empty and there is
\* no load, memory, CPU, soft-interrupt or network data.
C11_GetBeforeAnySet ==
    \A g \in Getters :
        (getters[g].pc = "done" /\ nset = 0) =>
            /\ getters[g].response.name = ""
            /\ \A fld \in DataFields : getters[g].response[fld] = <<>>

\* a get has returned before any set arrived
C11_Witness == \E g \in Getters : getters[g].pc = "done" /\ nset = 0

----------------------------------------------------------------------------
(* C12: a failed publish *)

\* C12: a failed publish is not retried and does not reach the loop as an error:
\* the snapshot of an iteration is sent at most once, it is the message built in
\* that iteration, and after a call whose status was not ok the thread is at its
\* sleep or in its next iteration, whose publish carries that iteration's message.
C12_FailedPublishNotRetried ==
    /\ \A k \in {tick - 1, tick} : Len(CallsOf(rpc, k)) <= 1
    /\ \A i \in 1..Len(rpc) :
          /\ rpc[i].tick \in {tick - 1, tick}
          /\ rpc[i].tick = tick => rpc[i].request = monitor_info
          /\ (~rpc[i].ok /\ rpc[i].tick = tick) => pc \in {"sleep", "begin"}

\* the publish of one iteration failed, and the next iteration has published the
\* message it built
C12_Witness ==
    /\ Len(rpc) = 2
    /\ ~rpc[1].ok /\ rpc[1].tick = tick - 1
    /\ rpc[2].tick = tick /\ rpc[2].request = monitor_info

----------------------------------------------------------------------------
(* C13: a failed fetch *)

\* a snapshot that holds nothing
IsDefault(msg) == msg.name = "" /\ \A fld \in DataFields : msg[fld] = <<>>

\* C13: after a failed GetMonitorInfo call the display's monitor_info is empty, and
\* what the poll loop hands to the widgets after a failed call is empty: no field of
\* an earlier poll is presented.
C13_FailedFetchIsEmpty ==
    /\ (display.pc \in {"clear", "update"} /\ ~display.ok) => IsDefault(display.monitor_info)
    /\ ~display.shown.ok => IsDefault(display.shown.info)

\* a poll returned data and was shown, and the next poll failed
C13_Witness ==
    /\ display.pc = "update" /\ ~display.ok
    /\ display.shown.ok /\ display.shown.info.name = "alice"

----------------------------------------------------------------------------
(* C14: a source that cannot be opened *)

\* the field of the snapshot that each monitor fills
DomainOf ==
    [softirq |-> "soft_irq", load |-> "cpu_load", stat |-> "cpu_stat",
     mem |-> "mem_info", net |-> "net_info"]

\* C14: when a monitor's source cannot be opened, the monitor returns normally and
\* has put nothing into the snapshot of this iteration; this holds for each of the
\* five monitors.
C14_UnopenableSourceSkipsDomain ==
    \A m \in MonitorNames :
        (trace.monitor = m /\ proc[m] = Unopenable) =>
            /\ pc # "terminated"
            /\ monitor_info[DomainOf[m]] = <<>>

\* the network monitor has returned from a call in which /proc/net/dev could not
\* be opened, and the snapshot has no network record
C14_Witness ==
    /\ trace.monitor = "net" /\ proc["net"] = Unopenable
    /\ pc = "publish" /\ monitor_info.net_info = <<>>

----------------------------------------------------------------------------
(* C15: the host identifier *)

\* C15: every snapshot handed to the transport carries the same host identifier:
\* the value getenv("USER") gave at startup when it was set, and "unknown_host"
\* when it was not; the identifier of one iteration equals that of the one before.
C15_HostIdentifierFixed ==
    /\ \A i \in 1..Len(rpc) :
          rpc[i].request.name = (IF name = NullPtr THEN "unknown_host" ELSE name)
    /\ \A i, j \in 1..Len(rpc) : rpc[i].request.name = rpc[j].request.name

\* USER was not set, and two iterations have published under the sentinel
C15_Witness ==
    /\ name = NullPtr
    /\ Len(rpc) = 2
    /\ rpc[1].tick < rpc[2].tick
    /\ rpc[1].request.name = "unknown_host" /\ rpc[2].request.name = "unknown_host"

----------------------------------------------------------------------------
(* C16: the order of an iteration *)

\* the monitors that have been called in this iteration
Ran == {m \in MonitorNames : proc[m] # NoSource}

\* the monitors that come before position k of runners_
Earlier(k) == {Monitors[j] : j \in 1..(k - 1)}

\* C16: iterations do not overlap.  While the thread is at the k-th monitor, exactly
\* the monitors before it have run in this iteration and nothing has been published
\* for it; a publish is made only after all five monitors have returned; there is
\* exactly one publish per completed iteration, and the iteration before was
\* published exactly once before this one began.
C16_TicksStrictlyOrdered ==
    /\ \A k \in 1..Len(Monitors) :
          pc = Monitors[k] => Ran = Earlier(k) /\ CallsOf(rpc, tick) = <<>>
    /\ (pc = "publish" \/ CallsOf(rpc, tick) # <<>>) => Ran = MonitorNames
    /\ pc = "publish" => CallsOf(rpc, tick) = <<>>
    /\ pc = "sleep" => Len(CallsOf(rpc, tick)) = 1
    /\ (pc = "begin" /\ tick >= 1) => Len(CallsOf(rpc, tick)) = 1
    /\ tick >= 2 => Len(CallsOf(rpc, tick - 1)) = 1

\* the second iteration is at its first monitor, and the first has been published
C16_Witness ==
    /\ tick = 2 /\ pc = "softirq" /\ Ran = {}
    /\ Len(rpc) = 1 /\ rpc[1].tick = 1

----------------------------------------------------------------------------
(* C17: the range of the CPU percentages *)

\* the percentages of a cpu_stat record
CpuPercentages ==
    {"cpu_percent", "usr_percent", "system_percent", "nice_percent", "idle_percent",
     "io_wait_percent", "irq_percent", "soft_irq_percent"}

\* the jiffies that enter the total
Accounted == {"user", "nice", "system", "idle", "io_wait", "irq", "soft_irq", "steal"}

\* no accounted counter went down between the stored sample and the one read
NonDecreasing(e) == \A c \in Accounted : Delta(e, c) >= 0

\* C17: when no counter of a CPU entity went down between its two samples and the
\* total delta is positive, every percentage emitted for the entity lies in [0, 100].
C17_PercentagesInRange ==
    \A e \in Entries({"stat"}) :
        (e.had /\ NonDecreasing(e) /\ DeltaTotal(e) > 0) =>
            \A i \in 1..Len(e.added) : \A p \in CpuPercentages :
                LET x == e.added[i][p]
                IN  x.den > 0 /\ 0 <= x.num /\ x.num <= 100 * x.den

\* counters of a healthy machine went up, and every percentage emitted is in range
C17_Witness ==
    \E e \in Entries({"stat"}) :
        /\ e.had /\ NonDecreasing(e) /\ DeltaTotal(e) = 1000
        /\ Len(e.added) = 1
        /\ \A p \in CpuPercentages :
               e.added[1][p].den > 0 /\ 0 <= e.added[1][p].num
               /\ e.added[1][p].num <= 100 * e.added[1][p].den

----------------------------------------------------------------------------
(* C18: a counter that went down *)

\* the counters of a network sample and the rate each gives
NetCounterRates ==
    {<<"snd_bytes", "send_rate">>, <<"rcv_bytes", "rcv_rate">>,
     <<"snd_packets", "send_packets_rate">>, <<"rcv_packets", "rcv_packets_rate">>}

\* a rate below zero
Negative(x) == (x.num < 0 /\ x.den > 0) \/ (x.num > 0 /\ x.den < 0)

\* C18: when a counter of an entity is smaller than in its stored sample and the
\* elapsed time is positive, the network and soft-interrupt monitors emit the
\* entity's record with the negative rate (current - previous) / elapsed, neither
\* clamped nor dropped, and the history entry is replaced by the current sample.
C18_CounterDecreaseNotGuarded ==
    /\ \A e \in Entries({"net"}) : \A c \in NetCounterRates :
           (e.had /\ e.raw.timepoint > e.before[1].timepoint
            /\ e.raw[c[1]] < e.before[1][c[1]]) =>
               /\ Len(e.added) = 1
               /\ Negative(e.added[1][c[2]])
               /\ RatioEq(e.added[1][c[2]],
                          Ratio(e.raw[c[1]] - e.before[1][c[1]],
                                (IF c[1] \in {"snd_bytes", "rcv_bytes"} THEN 1024 ELSE 1)
                                * (e.raw.timepoint - e.before[1].timepoint)))
               /\ e.after = <<e.raw>>
    /\ \A e \in Entries({"softirq"}) : \A c \in SoftIrqCounters :
           (e.had /\ e.raw.timepoint > e.before[1].timepoint
            /\ e.raw[c] < e.before[1][c]) =>
               /\ Len(e.added) = 1
               /\ Negative(e.added[1][c])
               /\ RatioEq(e.added[1][c],
                          Ratio(e.raw[c] - e.before[1][c],
                                e.raw.timepoint - e.before[1].timepoint))
               /\ e.after = <<e.raw>>

\* a soft-interrupt counter went down by 1000 in 3 seconds and the record says so,
\* and a packet counter of an interface went down and its rate is negative
C18_Witness ==
    \/ \E e \in Entries({"softirq"}) :
           /\ e.had /\ e.raw.timepoint - e.before[1].timepoint = 3
           /\ e.raw.hi - e.before[1].hi = 0 - 1000
           /\ Len(e.added) = 1 /\ e.added[1].hi = Ratio(0 - 1000, 3)
           /\ e.after = <<e.raw>>
    \/ \E e \in Entries({"net"}) :
           /\ e.had /\ e.raw.timepoint > e.before[1].timepoint
           /\ e.raw.rcv_packets < e.before[1].rcv_packets
           /\ Len(e.added) = 1 /\ Negative(e.added[1].rcv_packets_rate)
           /\ e.after = <<e.raw>>

----------------------------------------------------------------------------
(* C19: an interface that was absent for some iterations *)

\* the rows of a call's log before row i do not name the interface of row i
FirstRowOf(log, i) == \A j \in 1..(i - 1) : log[j].name # log[i].name

\* C19: a call of the network monitor leaves the history entry of every interface
\* that is not in the source as it was, however many calls the interface is absent;
\* when the interface is in the source again, its record is computed against
\* that stored sample with the time elapsed since it, the whole gap, and the
\* interface is not treated as seen for the first time.
C19_GapWidensWindow ==
    [][pc = "net" =>
         LET log == trace'.log IN
         /\ \A nm \in DOMAIN net_info_ :
               /\ nm \in DOMAIN net_info_'
               /\ (\A i \in 1..Len(log) : log[i].name # nm) => net_info_'[nm] = net_info_[nm]
         /\ \A i \in 1..Len(log) :
               (log[i].name \in DOMAIN net_info_ /\ FirstRowOf(log, i)) =>
                  LET e   == log[i]
                      old == net_info_[e.name]
                      dt  == e.raw.timepoint - old.timepoint
                  IN  /\ e.had /\ e.before = <<old>>
                      /\ dt >= SleepSeconds
                      /\ Len(e.added) = 1
                      /\ \A c \in NetCounterRates :
                            RatioEq(e.added[1][c[2]],
                                    Ratio(e.raw[c[1]] - old[c[1]],
                                          (IF c[1] \in {"snd_bytes", "rcv_bytes"} THEN 1024 ELSE 1) * dt))
    ]_vars

\* an interface is read in the third iteration against the sample of the first one,
\* at least two sleeps old: it was not in the source of the second iteration
C19_Witness ==
    /\ tick = 3
    /\ \E e \in Entries({"net"}) :
          /\ e.had
          /\ e.raw.timepoint - e.before[1].timepoint >= 2 * SleepSeconds
          /\ e.raw.snd_packets > e.before[1].snd_packets
          /\ Len(e.added) = 1
          /\ e.added[1].send_packets_rate =
                Ratio(e.raw.snd_packets - e.before[1].snd_packets,
                      e.raw.timepoint - e.before[1].timepoint)

----------------------------------------------------------------------------
(* C20: the unit of the memory gauges *)

\* the rows of the source read by the last memory call whose label is one of the
\* chain, with the setter of the label and the number of KB of the row
MemRowsRead ==
    {[setter |-> MemTable[k].setter, kb |-> Stoll(Records[proc["mem"]][i][2]).val] :
        <<i, k>> \in {p \in (1..Len(Records[proc["mem"]])) \X (1..Len(MemTable)) :
                        /\ Records[proc["mem"]][p[1]][1] = MemTable[p[2]].label
                        /\ Len(Records[proc["mem"]][p[1]]) >= 2
                        /\ Stoll(Records[proc["mem"]][p[1]][2]).ok}}

\* C20: every gauge of the memory record is the number of KB read for its label
\* over 1000 * 1000, to the precision of a float, and not over 1024 * 1024; a
\* value of 16000000 KB gives exactly 16 GB.
C20_GaugeIsKBOverMillion ==
    (trace.monitor = "mem" /\ monitor_info.mem_info # <<>>) =>
        \A r \in MemRowsRead :
            LET g == monitor_info.mem_info[1].gauge[r.setter] IN
            /\ g.den = 1000000
            /\ Abs(g.num - r.kb) <= r.kb \div (2 ^ FloatMantissa)
            /\ r.kb = 16000000 => RatioEq(g, Ratio(16, 1))

\* a source with MemTotal: 16000000 kB was read and the gauge says 16, and the
\* gauge of MemAvailable: 8000000 kB says 8
C20_Witness ==
    /\ trace.monitor = "mem"
    /\ proc["mem"] = MemNormal
    /\ monitor_info.mem_info # <<>>
    /\ [setter |-> "total", kb |-> 16000000] \in MemRowsRead
    /\ monitor_info.mem_info[1].gauge.total = Ratio(16000000, 1000000)
    /\ RatioEq(monitor_info.mem_info[1].gauge.total, Ratio(16, 1))
    /\ RatioEq(monitor_info.mem_info[1].gauge.avail, Ratio(8, 1))

----------------------------------------------------------------------------
(* C21: the order of the monitors in runners_ *)

\* C21: when the five monitors have run in some order in an iteration, the snapshot
\* and the three histories are the ones that the order of main() gives from the same
\* histories, on the same sources and with the same clock readings; and a call
\* that ends the process in some order ends it when it is run first.
C21_SamplerOrderIndependence ==
    /\ (trace.monitor = "order" /\ pc = "publish") =>
           Members = RunInOrder(Monitors, 1, trace.start, proc, trace.ub, now, grain)
    /\ (trace.monitor = "order" /\ pc = "terminated") =>
           LET m == trace.last IN
           UpdateOnce(m, trace.start, proc[m], trace.ub[m], now, grain).status = "terminated"

\* the five monitors have run and the first one of main() was the last to run, in
\* an iteration that found samples in the three histories, and every monitor has
\* given records
C21_Witness ==
    /\ trace.monitor = "order" /\ pc = "publish" /\ tick >= 2
    /\ trace.ran = MonitorNames /\ trace.last = "softirq"
    /\ \A m \in MonitorNames : monitor_info[Writes[m]] # <<>>
    /\ \A m \in DOMAIN trace.start.hist :
          trace.start.hist[m] # EmptyMap /\ Members.hist[m] # trace.start.hist[m]

----------------------------------------------------------------------------
(* C22: the rows of /proc/net/dev that are interfaces *)

\* the first token ends with ':' and the record has at least 10 tokens
EndsWithColon(args) ==
    Len(args[1]) >= 1 /\ args[1][Len(args[1])] = ":" /\ Len(args) >= 10

\* the rows of the source of the last network call
NetRowsRead == Records[proc["net"]]

\* C22: the network monitor processes a record exactly when its first token ends
\* with ':' and it has at least 10 tokens; for such a record every token that is
\* converted is a token of the record, and the sample is stored, and the record
\* emitted, under the first token without its ':'; no other record is processed.
C22_InterfaceRowsOnly ==
    trace.monitor = "net" =>
        /\ \A i \in 1..Len(NetRowsRead) :
              EndsWithColon(NetRowsRead[i]) =>
                  \A k \in 1..Len(NetFieldIndex) : NetFieldIndex[k] < Len(NetRowsRead[i])
        /\ \A e \in Entries({"net"}) :
              /\ \E i \in 1..Len(NetRowsRead) :
                    EndsWithColon(NetRowsRead[i]) /\ e.name \o <<":">> = NetRowsRead[i][1]
              /\ e.after # <<>> /\ e.after[1].name = e.name
              /\ \A j \in 1..Len(e.added) : e.added[j].name = e.name
        /\ pc # "terminated" =>
              /\ Len(trace.log) =
                    Cardinality({i \in 1..Len(NetRowsRead) : EndsWithColon(NetRowsRead[i])})
              /\ \A i \in 1..Len(NetRowsRead) :
                    EndsWithColon(NetRowsRead[i]) =>
                        \E e \in Entries({"net"}) : e.name \o <<":">> = NetRowsRead[i][1]

\* a row of 10 tokens was processed: the sample stored for eth0 has, as its count of
\* packets sent, what the read of net_datas[10] found beyond the end of the record
C22_Witness ==
    /\ trace.monitor = "net" /\ pc = "publish"
    /\ proc["net"] = NetFile(<<NetShortLine>>)
    /\ \E e \in Entries({"net"}) :
          /\ e.name = Word.eth0
          /\ e.raw.rcv_packets = 100 /\ e.raw.snd_bytes = 1024
          /\ e.raw.snd_packets = 7

----------------------------------------------------------------------------
(* C23: the columns of /proc/softirqs *)

\* the members of struct SoftIrq in the order of the rows of the source
IrqClasses ==
    <<"hi", "timer", "net_tx", "net_rx", "block", "irq_poll", "tasklet", "sched",
      "hrtimer", "rcu">>

\* the rows of the source of the last soft-interrupt call
SoftIrqRowsRead == Records[proc["softirq"]]

\* the CPU names of a header row
CpuColumns(header) == LET Named(w) == w # <<>> IN SelectSeq(header, Named)

\* a header row of N different CPUs, then ten rows of a label and N counts
SoftIrqWellFormed(rows) ==
    /\ Len(rows) = 1 + Len(IrqClasses)
    /\ LET cols == CpuColumns(rows[1]) IN
       /\ Len(cols) >= 1
       /\ \A i, j \in 1..Len(cols) : cols[i] = cols[j] => i = j
       /\ \A k \in 1..Len(IrqClasses) :
             /\ Len(rows[k + 1]) = Len(cols) + 1
             /\ \A i \in 1..Len(cols) : Stoll(rows[k + 1][i + 1]).ok

\* C23: on a source whose header row names N CPUs and whose ten rows have N counts
\* each, the soft-interrupt monitor returns with one sample per CPU column, N in all,
\* stored under the name in the header; the ten counters of the i-th CPU are the
\* i-th counts of the ten rows, in the order of the rows.
C23_OneEntityPerCpuColumn ==
    (trace.monitor = "softirq" /\ SoftIrqWellFormed(SoftIrqRowsRead)) =>
        LET rows == SoftIrqRowsRead
            cols == CpuColumns(rows[1])
        IN  /\ pc # "terminated"
            /\ Len(trace.log) = Len(cols)
            /\ \A i \in 1..Len(cols) :
                  /\ trace.log[i].name = cols[i]
                  /\ \A k \in 1..Len(IrqClasses) :
                        trace.log[i].raw[IrqClasses[k]] = Stoll(rows[k + 1][i + 1]).val
                  /\ cols[i] \in DOMAIN cpu_softirqs_
                  /\ cpu_softirqs_[cols[i]] = trace.log[i].raw

\* a source with the columns CPU0 and CPU1 was read: the sample of CPU1 has the
\* second count of the HI row and of the RCU row, the one of CPU0 the first of TIMER
C23_Witness ==
    /\ trace.monitor = "softirq"
    /\ proc["softirq"] = SoftIrqFile(<<Word.cpu0, Word.cpu1>>, 2)
    /\ DOMAIN cpu_softirqs_ = {Word.cpu0, Word.cpu1}
    /\ cpu_softirqs_[Word.cpu1].hi = 1110
    /\ cpu_softirqs_[Word.cpu1].rcu = 10110
    /\ cpu_softirqs_[Word.cpu0].timer = 2100

----------------------------------------------------------------------------
(* C24: the used share of the memory, and the labels that are not read *)

\* the KB of the row with a label, when the source has such a row with a number
MemValue(label) ==
    {Stoll(Records[proc["mem"]][i][2]).val :
        i \in {j \in 1..Len(Records[proc["mem"]]) :
                 /\ Records[proc["mem"]][j][1] = label
                 /\ Len(Records[proc["mem"]][j]) >= 2
                 /\ Stoll(Records[proc["mem"]][j][2]).ok}}

\* the rows of the source with a label of the chain
MemRecognised ==
    LET Known(args) == \E k \in 1..Len(MemTable) : MemTable[k].label = args[1]
    IN  SelectSeq(Records[proc["mem"]], Known)

\* C24: the used percent of the memory record is (MemTotal - MemAvailable) /
\* MemTotal * 100 for the values of the source read in this iteration, whatever
\* MemFree is; and the gauges are the ones the rows with a recognised label give:
\* a row with another label changes none.
C24_UsedPercentFromAvailable ==
    (trace.monitor = "mem" /\ monitor_info.mem_info # <<>>) =>
        /\ \A t \in MemValue(MemTable[1].label), a \in MemValue(MemTable[3].label) :
              t > 0 => RatioEq(monitor_info.mem_info[1].used_percent, Ratio(100 * (t - a), t))
        /\ \E ub \in UBOutcomes :
              monitor_info.mem_info[1].gauge =
                  MemMsg(MemRows([status |-> "ok", mem_info |-> UninitMenInfo(ub)],
                                 MemRecognised, 1, ub).mem_info)

\* of 16000000 KB, 8000000 are available and 3000000 free: the record says 50
\* percent; the source has a SwapTotal row, which is not read
C24_Witness ==
    /\ trace.monitor = "mem" /\ proc["mem"] = MemNormal
    /\ MemValue(MemTable[1].label) = {16000000}
    /\ MemValue(MemTable[2].label) = {3000000}
    /\ MemValue(MemTable[3].label) = {8000000}
    /\ MemValue(Word.swap_total) = {2000000}
    /\ Len(MemRecognised) < Len(Records[proc["mem"]])
    /\ monitor_info.mem_info # <<>>
    /\ RatioEq(monitor_info.mem_info[1].used_percent, Ratio(50, 1))

----------------------------------------------------------------------------
(* C25: the records of a source *)

\* the lines of a text from position pos on; the last one need not end in a newline
RECURSIVE LinesOf(_, _)
LinesOf(text, pos) ==
    IF pos > Len(text) THEN <<>>
    ELSE LET nl == First(text, pos, {NL}, TRUE)
         IN  <<SubSeq(text, pos, nl - 1)>> \o LinesOf(text, nl + 1)

\* the lines before the first line that is empty
RECURSIVE UpToBlank(_)
UpToBlank(lines) ==
    IF lines = <<>> \/ Head(lines) = <<>> THEN <<>>
    ELSE <<Head(lines)>> \o UpToBlank(Tail(lines))

\* the words of a line from position p on: the longest runs without a blank
RECURSIVE WordsOf(_, _)
WordsOf(line, p) ==
    LET b == First(line, p, Spaces, FALSE)
        e == First(line, b, Spaces, TRUE)
    IN  IF b > Len(line) THEN <<>>
        ELSE <<SubSeq(line, b, e - 1)>> \o WordsOf(line, e)

\* one record per line, its tokens the words of the line
RecordsOfLines(lines) == [i \in 1..Len(lines) |-> WordsOf(lines[i], 1)]

\* C25: the records that the monitor called last was given are, in order, one for
\* every line of its source before the first empty line, the last line of the
\* source included, and the tokens of a record are exactly the words of its line.
C25_OneRecordPerLine ==
    \A m \in MonitorNames :
        (trace.monitor = m /\ proc[m].open) =>
            Records[proc[m]] = RecordsOfLines(UpToBlank(LinesOf(proc[m].text, 1)))

\* /proc/softirqs was read: its header row has two words, CPU0 and CPU1, and the
\* record of the row has three tokens, the last one empty; the other records are
\* the words of their lines
C25_Witness ==
    /\ trace.monitor = "softirq" /\ proc["softirq"].open
    /\ LET lines == UpToBlank(LinesOf(proc["softirq"].text, 1)) IN
       /\ Len(lines) = 11 /\ Len(Records[proc["softirq"]]) = 11
       /\ WordsOf(lines[1], 1) = <<Word.cpu0, Word.cpu1>>
       /\ Records[proc["softirq"]][1] = <<Word.cpu0, Word.cpu1, <<>> >>
       /\ \A i \in 2..11 : Records[proc["softirq"]][i] = WordsOf(lines[i], 1)

----------------------------------------------------------------------------
(* C26: the first snapshot and the later ones *)

\* the names of the entities in the rows of the source a monitor read, row by row
EntityNames(m) ==
    LET rows == Records[proc[m]]
        Net(args) == EndsWithColon(args)
        Stat(args) == IsCpuRow(args)
    IN  CASE m = "softirq" -> IF rows = <<>> THEN <<>> ELSE CpuColumns(rows[1])
          [] m = "stat"    -> [i \in 1..Len(SelectSeq(rows, Stat)) |-> SelectSeq(rows, Stat)[i][1]]
          [] m = "net"     -> [i \in 1..Len(SelectSeq(rows, Net)) |-> SelectSeq(rows, Net)[i][1]]

\* no entity has two rows in the source
OncePerEntity(m) ==
    \A i, j \in 1..Len(EntityNames(m)) : EntityNames(m)[i] = EntityNames(m)[j] => i = j

\* the name a record carries
RecordName(monitor, msg) ==
    CASE monitor = "softirq" -> msg.cpu
      [] monitor = "stat"    -> msg.cpu_name
      [] monitor = "net"     -> msg.name

----------------------------------------------------------------------------
(* C27: the history entries of the entities that are not in the source *)

\* the entities named in the source a monitor read
SourceEntities(m) ==
    {IF m = "net" THEN PopBack(EntityNames(m)[i]) ELSE EntityNames(m)[i] :
        i \in 1..Len(EntityNames(m))}

\* the history of a monitor
HistoryOf(m) ==
    CASE m = "softirq" -> cpu_softirqs_
      [] m = "stat"    -> cpu_stat_map_
      [] m = "net"     -> net_info_

\* C27: a call of the soft-interrupt or of the network monitor removes no entry of
\* its history and leaves the entry of every entity that is not in the source it
\* read exactly as it was; it leaves the histories of the other monitors as they
\* were; and no other step of the loop changes a history.
C27_NoEvictionNoCrossEffect ==
    [][/\ \A m \in {"softirq", "net"} :
            pc = m =>
               /\ \A nm \in DOMAIN HistoryOf(m) :
                     /\ nm \in DOMAIN HistoryOf(m)'
                     /\ nm \notin SourceEntities(m)' => HistoryOf(m)'[nm] = HistoryOf(m)[nm]
               /\ DOMAIN HistoryOf(m)' \subseteq DOMAIN HistoryOf(m) \cup SourceEntities(m)'
               /\ \A o \in Samplers \ {m} : HistoryOf(o)' = HistoryOf(o)
       /\ pc \notin Samplers => \A o \in Samplers : HistoryOf(o)' = HistoryOf(o)
    ]_vars

\* the source of the soft interrupts had the column CPU0 only: the sample of CPU1
\* is still the one of the iteration before, and the one of CPU0 is new
C27_Witness ==
    /\ trace.monitor = "softirq" /\ tick >= 2
    /\ SourceEntities("softirq") = {Word.cpu0}
    /\ DOMAIN cpu_softirqs_ = {Word.cpu0, Word.cpu1}
    /\ cpu_softirqs_[Word.cpu0].timepoint >= cpu_softirqs_[Word.cpu1].timepoint + SleepSeconds

----------------------------------------------------------------------------
(* C28: the busy share, the idle share and the share waiting for I/O *)

\* the sum of two fractions
RatioAdd(x, y) ==
    LET a == Reduce(x)
        b == Reduce(y)
    IN  Reduce(Ratio(a.num * b.den + b.num * a.den, a.den * b.den))

\* the sum of the deltas of the busy components
DeltaBusy(e) ==
    Delta(e, "user") + Delta(e, "system") + Delta(e, "nice") + Delta(e, "irq")
    + Delta(e, "soft_irq") + Delta(e, "steal")

\* C28: in every record that the CPU-time monitor adds, cpu_percent is the share of
\* the deltas of user, system, nice, irq, softirq and steal in the total delta, and
\* cpu_percent + idle_percent + io_wait_percent is 100, to a hundredth.
C28_BusyIdleWaitSumTo100 ==
    \A e \in Entries({"stat"}) : \A j \in 1..Len(e.added) :
        /\ DeltaTotal(e) > 0 =>
              Near(e.added[j].cpu_percent, Ratio(100 * DeltaBusy(e), DeltaTotal(e)))
        /\ Near(RatioAdd(RatioAdd(e.added[j].cpu_percent, e.added[j].idle_percent),
                         e.added[j].io_wait_percent),
                Ratio(100, 1))

\* a row of /proc/stat had the counters of the iteration before: the record that
\* was added for it has no name and its three shares are 0
C28_Witness ==
    \E e \in Entries({"stat"}) :
        /\ e.had /\ DeltaTotal(e) = 0
        /\ Len(e.added) = 1
        /\ e.added[1].cpu_name = <<>>
        /\ RatioAdd(RatioAdd(e.added[1].cpu_percent, e.added[1].idle_percent),
                     e.added[1].io_wait_percent) = Ratio(0, 1)

----------------------------------------------------------------------------
(* C29: the snapshots one display receives, one after the other *)

\* the requests of the SetMonitorInfo calls begun so far, which are the snapshots
\* published so far
Published == {Request(n) : n \in 1..nset}

\* the place of a published snapshot in the order of publication
SnapshotIndex(info) == CHOOSE n \in 1..nset : info = Request(n)

\* C29: what a successful GetMonitorInfo call gives the display is the empty
\* snapshot or a published one; and when the successful call before it gave a
\* published snapshot, it gives a published snapshot again, that one or a later one:
\* never an earlier one, and never the empty one.
C29_MonotonicReads ==
    (display.pc = "update" /\ display.ok) =>
        /\ display.monitor_info \in Published \cup {EmptyInfo}
        /\ (display.shown.ok /\ display.shown.info \in Published) =>
              /\ display.monitor_info \in Published
              /\ SnapshotIndex(display.monitor_info) >= SnapshotIndex(display.shown.info)

\* the display has shown the first published snapshot, and its next call, which
\* the server answered while it was storing the second one, succeeded with the
\* empty snapshot
C29_Witness ==
    /\ display.pc = "update" /\ display.ok
    /\ display.shown.ok /\ display.shown.info = Request(1)
    /\ nset = 2
    /\ display.monitor_info = EmptyInfo

----------------------------------------------------------------------------
(* C30: the columns of the display's memory table *)

\* the field of the memory record that a header label names: the labels are the
\* names of the fields, four of them written differently
FieldNamed ==
    [used_percent |-> "used_percent", total |-> "total", free |-> "free",
     avail |-> "avail", buffers |-> "buffers", cached |-> "cached",
     swap_cached |-> "swap_cached", active |-> "active", in_active |-> "inactive",
     active_anon |-> "active_anon", inactive_anon |-> "inactive_anon",
     active_file |-> "active_file", inactive_file |-> "inactive_file",
     dirty |-> "dirty", writeback |-> "writeback", anon_pages |-> "anon_pages",
     mapped |-> "mapped", kReclaimable |-> "kreclaimable",
     sReclaimable |-> "sreclaimable", sUnreclaim |-> "sunreclaim"]

\* C30: for the memory record of a snapshot, the value that the table has in
\* column c, for every c below the column count, is the value of the field that the
\* header of column c names; and every gauge of the record is the value of some
\* column.
C30_HeaderMatchesColumn ==
    (trace.monitor = "mem" /\ monitor_info.mem_info # <<>>) =>
        LET row == insert_one_mem_info(monitor_info.mem_info[1]) IN
        /\ \A c \in 1..COLUMN_MAX :
              /\ row[c].getter = FieldNamed[header_[c]]
              /\ row[c].value = MemField(monitor_info.mem_info[1], FieldNamed[header_[c]])
        /\ \A g \in DOMAIN monitor_info.mem_info[1].gauge :
              \E c \in 1..Len(row) : row[c].getter = g

\* the column with the header active_file has the value of dirty, 0.113 GB where
\* active_file is 0.111 GB, and no column has the value of active_file
C30_Witness ==
    /\ trace.monitor = "mem" /\ proc["mem"] = MemNormal
    /\ monitor_info.mem_info # <<>>
    /\ LET row == insert_one_mem_info(monitor_info.mem_info[1]) IN
       /\ header_[12] = "active_file"
       /\ row[12].getter = "dirty"
       /\ row[12].value = Ratio(113000, 1000000)
       /\ monitor_info.mem_info[1].gauge.active_file = Ratio(111000, 1000000)
       /\ \A c \in 1..Len(row) : row[c].getter # "active_file"

====
